---- MODULE Spec2Model ----
(***************************************************************************)
(* Model of swagger-to-localdb-cli: the Swagger parser (Spec Normalizer),  *)
(* the type generator (Type Resolver), the API/DB generators (Route        *)
(* Classifier and storage groups) and the generate command that runs them. *)
(*                                                                         *)
(* JavaScript strings are sequences of one-character strings, so that      *)
(* split, replace, toLowerCase, startsWith and parseInt are computed as    *)
(* the code computes them.  `undefined` is the record Undefined; a value   *)
(* that may be undefined is wrapped with Def.                              *)
(***************************************************************************)
EXTENDS Integers, Sequences, FiniteSets, TLC

VARIABLES
  opPc,        \* SpecOp: "raw" -> "parsed" -> "classified"
  rawOp,       \* SpecOp: the (path, method, operation) handed to parseOperation
  endpoint,    \* SpecOp: the SwaggerEndpoint built by parseOperation
  route,       \* SpecOp: the values generateApiFunction interpolates for the endpoint
  pc,          \* Spec: position of generateCommand / CodeGenerator.generate
  inputExists, \* Spec: fs.pathExists(input)
  seedFile,    \* Spec: options.seed and the content of the seed file
  seedData,    \* Spec: result of loadSeedData
  parsedSpec,  \* Spec: the ParsedSwagger returned by SwaggerSpecParser.parse
  api,         \* Spec: the document object returned by SwaggerParser.validate
  dbGenSeed,   \* Spec: third argument received by DbGenerator.generate
  files,       \* Spec: files written so far, in write order
  outcome,     \* Spec: spinner outcome and exit code of generateCommand
  calls,       \* Spec: the collaborators and generator steps invoked so far, in order
  console,     \* Spec: the console.warn / console.error lines written so far
  thrown,      \* Spec: the message of the error generateCommand's catch received
  options,     \* Spec: the GenerateOptions of the run, with the config file --config names
  config,      \* Spec: the Config returned by loadConfig
  tasks,       \* SpecDb: per caller, the database call it has in flight
  deleted,     \* SpecDb: the ids removed by a completed delete and not added since
  namePc,      \* SpecName: how often the name has been canonicalized
  rawName,     \* SpecName: the name given
  pascalNames, \* SpecName: toPascalCase of the name, and toPascalCase of that
  tyPc,        \* SpecType: "raw" -> "parsed" -> "generated"
  rawTypes,    \* SpecType: the declared schemas: components.schemas and one media-type schema
  parsedTypes, \* SpecType: the same after parseSchema
  typeDefs,    \* SpecType: the text the type generator emits for them
  runPc,       \* SpecRun: "generate" -> "run"
  genInput,    \* SpecRun: the responses object of the document's operations and the seed handed to DbGenerator.generate
  gen,         \* SpecRun: the generated API functions and database file
  store,       \* SpecRun: the object store of the storage group: key -> record
  seedCall,    \* SpecRun: the seedData() call in flight, with the store its check read
  result       \* SpecRun: how the last call of a generated function settled

opVars == <<opPc, rawOp, endpoint, route>>
cmdVars == <<pc, inputExists, seedFile, seedData, parsedSpec, api, dbGenSeed, files, outcome,
             calls, console, thrown, options, config>>
tyVars == <<tyPc, rawTypes, parsedTypes, typeDefs>>
runVars == <<runPc, genInput, gen, store, seedCall, result>>
dbVars == <<tasks, deleted>>
nameVars == <<namePc, rawName, pascalNames>>
vars == <<opVars, cmdVars, tyVars, runVars, dbVars, nameVars>>

----------------------------------------------------------------------------
(* JavaScript values and strings *)

Undefined == [t |-> "undefined"]
Def(v) == [t |-> "def", v |-> v]
IsDef(x) == x.t = "def"

LowerChars == <<"a","b","c","d","e","f","g","h","i","j","k","l","m",
                "n","o","p","q","r","s","t","u","v","w","x","y","z">>
UpperChars == <<"A","B","C","D","E","F","G","H","I","J","K","L","M",
                "N","O","P","Q","R","S","T","U","V","W","X","Y","Z">>
DigitChars == <<"0","1","2","3","4","5","6","7","8","9">>

Range(s) == {s[i] : i \in DOMAIN s}
IndexOf(seq, c) == CHOOSE i \in DOMAIN seq : seq[i] = c

IsLower(c) == c \in Range(LowerChars)
IsUpper(c) == c \in Range(UpperChars)
IsDigit(c) == c \in Range(DigitChars)
IsAlnum(c) == IsLower(c) \/ IsUpper(c) \/ IsDigit(c)
\* the regex class \w
IsWordChar(c) == IsAlnum(c) \/ c = "_"

toUpperCaseChar(c) == IF IsLower(c) THEN UpperChars[IndexOf(LowerChars, c)] ELSE c
toLowerCaseChar(c) == IF IsUpper(c) THEN LowerChars[IndexOf(UpperChars, c)] ELSE c

toUpperCase(s) == [i \in 1..Len(s) |-> toUpperCaseChar(s[i])]
toLowerCase(s) == [i \in 1..Len(s) |-> toLowerCaseChar(s[i])]

startsWith(s, c) == Len(s) > 0 /\ s[1] = c
includes(s, c) == \E i \in DOMAIN s : s[i] = c

\* str.split(sep) for a one-character separator
RECURSIVE SplitFrom(_, _, _, _)
SplitFrom(s, sep, i, cur) ==
  IF i > Len(s) THEN <<cur>>
  ELSE IF s[i] = sep THEN <<cur>> \o SplitFrom(s, sep, i + 1, <<>>)
  ELSE SplitFrom(s, sep, i + 1, Append(cur, s[i]))
split(s, sep) == SplitFrom(s, sep, 1, <<>>)

\* array.pop() of a non-empty array
pop(a) == a[Len(a)]

\* path.replace(/[^a-zA-Z0-9]/g, '')
stripNonAlnum(s) == SelectSeq(s, IsAlnum)

\* parseInt(s, 10) for an unsigned string: the value of the leading digits
NaN == -1
RECURSIVE DigitsValue(_, _, _)
DigitsValue(s, i, acc) ==
  IF i > Len(s) \/ ~IsDigit(s[i]) THEN acc
  ELSE DigitsValue(s, i + 1, acc * 10 + (IndexOf(DigitChars, s[i]) - 1))
parseInt(s) == IF Len(s) = 0 \/ ~IsDigit(s[1]) THEN NaN ELSE DigitsValue(s, 1, 0)

\* str.replace(/(?:^|[-_])(\w)/g, (_, c) => c.toUpperCase()): scanning left to
\* right, a match is either a word character at the very start, or a '-' or
\* '_' followed by a word character; the match is replaced by the upper-cased
\* word character and scanning resumes after it.
RECURSIVE PascalScan(_, _)
PascalScan(str, i) ==
  IF i > Len(str) THEN <<>>
  ELSE IF i = 1 /\ IsWordChar(str[i])
    THEN <<toUpperCaseChar(str[i])>> \o PascalScan(str, i + 1)
  ELSE IF str[i] \in {"-", "_"} /\ i + 1 <= Len(str) /\ IsWordChar(str[i + 1])
    THEN <<toUpperCaseChar(str[i + 1])>> \o PascalScan(str, i + 2)
  ELSE <<str[i]>> \o PascalScan(str, i + 1)
toPascalCase(str) == PascalScan(str, 1)

toCamelCase(str) ==
  LET pascalCase == toPascalCase(str)
  IN IF Len(pascalCase) = 0 THEN <<>>
     ELSE <<toLowerCaseChar(pascalCase[1])>> \o Tail(pascalCase)

\* Own-property order of a JavaScript object (Object.entries, Object.keys):
\* keys that are canonical array indices first, in ascending numeric order,
\* then every other key in insertion order.  decl is the sequence of
\* <<key, value>> pairs in the order the document declares them.
IsArrayIndex(k) ==
  /\ Len(k) > 0
  /\ \A i \in DOMAIN k : IsDigit(k[i])
  /\ (k[1] = "0" => Len(k) = 1)
RECURSIVE SortByIndex(_)
SortByIndex(entries) ==
  IF entries = <<>> THEN <<>>
  ELSE LET m == CHOOSE i \in DOMAIN entries :
                  \A j \in DOMAIN entries :
                    parseInt(entries[i][1]) <= parseInt(entries[j][1])
           rest == [j \in 1..(Len(entries) - 1) |->
                      IF j < m THEN entries[j] ELSE entries[j + 1]]
       IN <<entries[m]>> \o SortByIndex(rest)
IsIndexEntry(e) == IsArrayIndex(e[1])
IsNamedEntry(e) == ~IsArrayIndex(e[1])
ObjectEntries(decl) ==
  SortByIndex(SelectSeq(decl, IsIndexEntry)) \o SelectSeq(decl, IsNamedEntry)

----------------------------------------------------------------------------
(* SwaggerSpecParser (src/types/cli-types.ts, lines 84-246) *)

\* JavaScript truthiness of a possibly-undefined string, and of a
\* possibly-undefined object or array (objects and arrays are always truthy)
TruthyStr(x) == IsDef(x) /\ x.v # <<>>
TruthyObj(x) == IsDef(x)

Map(f(_), s) == [i \in DOMAIN s |-> f(s[i])]

AnySchema ==
  [type |-> "any", ref |-> Undefined, properties |-> Undefined,
   items |-> Undefined, required |-> Undefined, enum |-> Undefined]

\* schema is Undefined or Def(raw schema); a raw schema has the fields type,
\* ref ($ref), properties (declared <<name, schema>> pairs), items, required
\* and enum, each possibly undefined.  format, description and example are
\* copied through by the code and read by nothing modelled here.
RECURSIVE parseSchema(_)
parseSchema(schema) ==
  IF ~IsDef(schema) THEN AnySchema
  ELSE LET s == schema.v
           parseProp(e) == <<e[1], parseSchema(Def(e[2]))>>
       IN [type |-> IF IsDef(s.type) THEN s.type.v ELSE "object",
           ref |-> s.ref,
           properties |-> IF TruthyObj(s.properties)
                          THEN Def(Map(parseProp, ObjectEntries(s.properties.v)))
                          ELSE Undefined,
           items |-> IF TruthyObj(s.items) THEN Def(parseSchema(s.items)) ELSE Undefined,
           required |-> IF TruthyObj(s.required) THEN s.required ELSE Undefined,
           enum |-> IF TruthyObj(s.enum) THEN s.enum ELSE Undefined]

parseParameter(param) ==
  [name |-> param.name,
   in |-> param.in,
   required |-> IF IsDef(param.required) THEN param.required.v ELSE FALSE,
   schema |-> parseSchema(param.schema)]

\* media-type keys contain '/', so Object.entries keeps their declared order
parseMediaType(e) == <<e[1], [schema |-> parseSchema(e[2].schema)]>>

parseRequestBody(requestBody) ==
  [required |-> IF IsDef(requestBody.required) THEN requestBody.required.v ELSE FALSE,
   content |-> IF TruthyObj(requestBody.content)
               THEN Map(parseMediaType, requestBody.content.v)
               ELSE <<>>]

parseResponse(statusCode, response) ==
  LET content == IF TruthyObj(response.content)
                 THEN Map(parseMediaType, response.content.v)
                 ELSE <<>>
  IN [statusCode |-> statusCode,
      description |-> IF TruthyStr(response.description) THEN response.description.v ELSE <<>>,
      content |-> IF Len(content) > 0 THEN Def(content) ELSE Undefined]

\* parseOperation without the empty-list default for parameters
parseOperation_NoParameterDefault(path, method, operation) ==
  LET parseEntry(e) == parseResponse(e[1], e[2])
  IN [path |-> path,
      method |-> toUpperCase(method),
      operationId |-> IF TruthyStr(operation.operationId)
                      THEN operation.operationId.v
                      ELSE method \o stripNonAlnum(path),
      parameters |-> IF TruthyObj(operation.parameters)
                     THEN Def(Map(parseParameter, operation.parameters.v))
                     ELSE Undefined,
      requestBody |-> IF TruthyObj(operation.requestBody)
                      THEN Def(parseRequestBody(operation.requestBody.v))
                      ELSE Undefined,
      responses |-> Def(IF TruthyObj(operation.responses)
                        THEN Map(parseEntry, ObjectEntries(operation.responses.v))
                        ELSE <<>>),
      tags |-> operation.tags]

\* method is one of the lower-case entries of `methods`.  The endpoint's
\* parameters, responses and tags are kept as possibly-undefined values (Def
\* of an array, or Undefined); summary and description only reach comments
\* of the generated files and are left out.
parseOperation(path, method, operation) ==
  LET parseEntry(e) == parseResponse(e[1], e[2])
  IN [path |-> path,
      method |-> toUpperCase(method),
      operationId |-> IF TruthyStr(operation.operationId)
                      THEN operation.operationId.v
                      ELSE method \o stripNonAlnum(path),
      parameters |-> Def(IF TruthyObj(operation.parameters)
                         THEN Map(parseParameter, operation.parameters.v)
                         ELSE <<>>),
      requestBody |-> IF TruthyObj(operation.requestBody)
                      THEN Def(parseRequestBody(operation.requestBody.v))
                      ELSE Undefined,
      responses |-> Def(IF TruthyObj(operation.responses)
                        THEN Map(parseEntry, ObjectEntries(operation.responses.v))
                        ELSE <<>>),
      tags |-> operation.tags]

\* const methods = ['get', 'post', 'put', 'patch', 'delete', 'options', 'head']
methods ==
  << <<"g","e","t">>, <<"p","o","s","t">>, <<"p","u","t">>,
     <<"p","a","t","c","h">>, <<"d","e","l","e","t","e">>,
     <<"o","p","t","i","o","n","s">>, <<"h","e","a","d">> >>


----------------------------------------------------------------------------
(* ApiGenerator (src/generator/api-generator.ts) *)

\* the text of a JavaScript string, as emitted into a generated file
RECURSIVE Text(_)
Text(s) == IF s = <<>> THEN "" ELSE Head(s) \o Text(Tail(s))

S_get == <<"g","e","t">>
S_post == <<"p","o","s","t">>
S_put == <<"p","u","t">>
S_patch == <<"p","a","t","c","h">>
S_delete == <<"d","e","l","e","t","e">>
S_GET == <<"G","E","T">>
S_default == <<"d","e","f","a","u","l","t">>
S_resource == <<"r","e","s","o","u","r","c","e">>

\* controllerKeyOf keyed by the canonicalized (Pascal-case) tag
controllerKeyOf_Canonical(ep) ==
  LET controller == IF IsDef(ep.tags) /\ Len(ep.tags.v) > 0 /\ ep.tags.v[1] # <<>>
                    THEN ep.tags.v[1]
                    ELSE S_default
  IN IF controller = S_default THEN S_default ELSE toPascalCase(controller)

\* endpoint.tags?.[0] || 'default', then controller.toLowerCase()
controllerKeyOf(ep) ==
  LET controller == IF IsDef(ep.tags) /\ Len(ep.tags.v) > 0 /\ ep.tags.v[1] # <<>>
                    THEN ep.tags.v[1]
                    ELSE S_default
  IN toLowerCase(controller)

\* groups[controllerKey].push(endpoint), the keys in first-insertion order
\* (controller keys are tag names; a tag that is an array index is outside
\* the modelled tags)
RECURSIVE groupKeys(_)
groupKeys(endpoints) ==
  IF endpoints = <<>> THEN <<>>
  ELSE LET init == groupKeys(SubSeq(endpoints, 1, Len(endpoints) - 1))
           k == controllerKeyOf(endpoints[Len(endpoints)])
       IN IF k \in Range(init) THEN init ELSE Append(init, k)
groupEndpointsByController(endpoints) ==
  LET keys == groupKeys(endpoints)
      InGroup(k) == LET Test(ep) == controllerKeyOf(ep) = k
                    IN SelectSeq(endpoints, Test)
  IN [i \in DOMAIN keys |-> <<keys[i], InGroup(keys[i])>>]

IsPartKept(part) == part # <<>> /\ ~startsWith(part, "{")

generateFunctionName(ep) ==
  IF ep.operationId # <<>> THEN toCamelCase(ep.operationId)
  ELSE LET method == toLowerCase(ep.method)
           pathParts == SelectSeq(split(ep.path, "/"), IsPartKept)
           resourceName == IF Len(pathParts) > 0 /\ pop(pathParts) # <<>>
                           THEN pop(pathParts)
                           ELSE S_resource
       IN method \o toPascalCase(resourceName)

generateDbFunctionName(ep) ==
  LET method == toLowerCase(ep.method)
  IN CASE method = S_get -> IF includes(ep.path, "{") THEN "findById" ELSE "findAll"
       [] method = S_post -> "create"
       [] method \in {S_put, S_patch} -> "update"
       [] method = S_delete -> "delete"
       [] OTHER -> "query"

IsPathParam(p) == p.in = "path"
IsQueryParam(p) == p.in = "query"
hasRequestBodyOf(ep) == IsDef(ep.requestBody) /\ ep.method # S_GET

\* the argument list of the database call, before it is joined with ', '
generateDbFunctionParams(ep) ==
  LET pathParams == SelectSeq(ep.parameters.v, IsPathParam)
      queryParams == SelectSeq(ep.parameters.v, IsQueryParam)
      NameOf(p) == Text(p.name)
  IN Map(NameOf, pathParams)
       \o (IF Len(queryParams) > 0 THEN <<"params">> ELSE <<>>)
       \o (IF hasRequestBodyOf(ep) THEN <<"body">> ELSE <<>>)

\* responses.find(r => r.statusCode.startsWith(digit)): index of the first
\* such response, 0 when there is none
FindResponse(responses, digit) ==
  IF \E i \in DOMAIN responses : startsWith(responses[i].statusCode, digit)
  THEN CHOOSE i \in DOMAIN responses :
         /\ startsWith(responses[i].statusCode, digit)
         /\ \A j \in 1..(i - 1) : ~startsWith(responses[j].statusCode, digit)
  ELSE 0

getSuccessStatusCode(ep) ==
  LET i == FindResponse(ep.responses.v, "2")
      method == toLowerCase(ep.method)
  IN IF i # 0 THEN parseInt(ep.responses.v[i].statusCode)
     ELSE CASE method = S_post -> 201
            [] method = S_delete -> 204
            [] OTHER -> 200

getSuccessStatusText(ep) ==
  LET statusCode == getSuccessStatusCode(ep)
  IN CASE statusCode = 200 -> "OK"
       [] statusCode = 201 -> "Created"
       [] statusCode = 204 -> "No Content"
       [] OTHER -> "Success"

getErrorStatusCode(ep) ==
  LET i == FindResponse(ep.responses.v, "4")
  IN IF i # 0 THEN parseInt(ep.responses.v[i].statusCode) ELSE 400

\* parseSchema never yields an undefined schema, so `!schema` is never taken
mapSchemaToTypeScript(schema) ==
  CASE schema.type \in {"integer", "number"} -> "number"
    [] schema.type = "string" -> "string"
    [] schema.type = "boolean" -> "boolean"
    [] schema.type = "array" -> "any[]"
    [] OTHER -> "any"

\* generateApiFunction emitting every field of params as optional
generateApiFunction_AllFieldsOptional(ep) ==
  LET pathParams == SelectSeq(ep.parameters.v, IsPathParam)
      queryParams == SelectSeq(ep.parameters.v, IsQueryParam)
      PathArg(p) == [arg |-> Text(p.name), optional |-> FALSE,
                     type |-> mapSchemaToTypeScript(p.schema), fields |-> <<>>]
      Field(p) == [name |-> Text(p.name), optional |-> TRUE,
                   type |-> mapSchemaToTypeScript(p.schema)]
  IN [method |-> Text(ep.method),
      path |-> Text(ep.path),
      functionName |-> Text(generateFunctionName(ep)),
      parameterList |->
        Map(PathArg, pathParams)
          \o (IF Len(queryParams) > 0
              THEN <<[arg |-> "params", optional |-> TRUE, type |-> "object",
                      fields |-> Map(Field, queryParams)]>>
              ELSE <<>>)
          \o (IF hasRequestBodyOf(ep)
              THEN <<[arg |-> "body", optional |-> FALSE, type |-> "any",
                      fields |-> <<>>]>>
              ELSE <<>>),
      dbFunctionName |-> generateDbFunctionName(ep),
      dbFunctionParams |-> generateDbFunctionParams(ep),
      successStatus |-> getSuccessStatusCode(ep),
      statusText |-> getSuccessStatusText(ep),
      errorStatus |-> getErrorStatusCode(ep)]

\* The values generateApiFunction interpolates into the function it emits:
\* its name, its arguments in order, the database call and the statuses.
generateApiFunction(ep) ==
  LET pathParams == SelectSeq(ep.parameters.v, IsPathParam)
      queryParams == SelectSeq(ep.parameters.v, IsQueryParam)
      PathArg(p) == [arg |-> Text(p.name), optional |-> FALSE,
                     type |-> mapSchemaToTypeScript(p.schema), fields |-> <<>>]
      Field(p) == [name |-> Text(p.name), optional |-> ~p.required,
                   type |-> mapSchemaToTypeScript(p.schema)]
  IN [method |-> Text(ep.method),
      path |-> Text(ep.path),
      functionName |-> Text(generateFunctionName(ep)),
      parameterList |->
        Map(PathArg, pathParams)
          \o (IF Len(queryParams) > 0
              THEN <<[arg |-> "params", optional |-> TRUE, type |-> "object",
                      fields |-> Map(Field, queryParams)]>>
              ELSE <<>>)
          \o (IF hasRequestBodyOf(ep)
              THEN <<[arg |-> "body", optional |-> FALSE, type |-> "any",
                      fields |-> <<>>]>>
              ELSE <<>>),
      dbFunctionName |-> generateDbFunctionName(ep),
      dbFunctionParams |-> generateDbFunctionParams(ep),
      successStatus |-> getSuccessStatusCode(ep),
      statusText |-> getSuccessStatusText(ep),
      errorStatus |-> getErrorStatusCode(ep)]


----------------------------------------------------------------------------
(* TypeGenerator (src/generator/type-generator.ts, lines 1-217) *)

\* array.join(sep) of an array of texts
RECURSIVE Join(_, _)
Join(texts, sep) ==
  IF texts = <<>> THEN ""
  ELSE IF Len(texts) = 1 THEN texts[1]
  ELSE texts[1] \o sep \o Join(Tail(texts), sep)

mapSwaggerTypeToTypeScript(swaggerType) ==
  CASE swaggerType \in {"integer", "number"} -> "number"
    [] swaggerType = "string" -> "string"
    [] swaggerType = "boolean" -> "boolean"
    [] swaggerType = "array" -> "any[]"
    [] swaggerType = "object" -> "Record<string, any>"
    [] OTHER -> "any"

\* a generator that quotes every enum value
EnumLiteral_AllQuoted(value) ==
  "'" \o (IF value.k = "string" THEN Text(value.v) ELSE ToString(value.v)) \o "'"
\* an enum literal is [k |-> "string", v |-> characters] or
\* [k |-> "number", v |-> integer]
EnumLiteral(value) ==
  IF value.k = "string" THEN "'" \o Text(value.v) \o "'" ELSE ToString(value.v)

\* a generator that marks no property as required
isRequiredIn_NeverRequired(schema, propName) == FALSE
\* schema.required?.includes(propName) || false
isRequiredIn(schema, propName) ==
  IsDef(schema.required) /\ propName \in Range(schema.required.v)

RECURSIVE generateTypeFromSchema(_)

\* generateTypeFromSchema looking the target up in the named-schema table and
\* answering 'any' when it is absent
generateTypeFromSchema_AnyForAbsent(schema) ==
  IF TruthyStr(schema.ref)
  THEN LET last == pop(split(schema.ref.v, "/"))
           refName == IF last # <<>> THEN last ELSE <<"u","n","k","n","o","w","n">>
           declared == {parsedTypes.schemas[i][1] : i \in DOMAIN parsedTypes.schemas}
       IN IF refName \in declared THEN Text(toPascalCase(refName)) ELSE "any"
  ELSE IF schema.type = "array" /\ IsDef(schema.items)
  THEN generateTypeFromSchema(schema.items.v) \o "[]"
  ELSE IF IsDef(schema.enum)
  THEN Join(Map(EnumLiteral, schema.enum.v), " | ")
  ELSE IF schema.type = "object" /\ IsDef(schema.properties)
  THEN LET Prop(e) == Text(e[1])
                        \o (IF isRequiredIn(schema, e[1]) THEN "" ELSE "?")
                        \o ": " \o generateTypeFromSchema(e[2])
       IN "{ " \o Join(Map(Prop, schema.properties.v), "; ") \o " }"
  ELSE mapSwaggerTypeToTypeScript(schema.type)

\* generateTypeFromSchema replacing a reference to a declared schema by a
\* structural copy of that schema's own type
generateTypeFromSchema_Expanding(schema) ==
  IF TruthyStr(schema.ref)
  THEN LET last == pop(split(schema.ref.v, "/"))
           refName == IF last # <<>> THEN last ELSE <<"u","n","k","n","o","w","n">>
           hits == {i \in DOMAIN parsedTypes.schemas : parsedTypes.schemas[i][1] = refName}
       IN IF hits # {}
          THEN mapSwaggerTypeToTypeScript(parsedTypes.schemas[CHOOSE i \in hits : TRUE][2].type)
          ELSE Text(toPascalCase(refName))
  ELSE IF schema.type = "array" /\ IsDef(schema.items)
  THEN generateTypeFromSchema(schema.items.v) \o "[]"
  ELSE IF IsDef(schema.enum)
  THEN Join(Map(EnumLiteral, schema.enum.v), " | ")
  ELSE IF schema.type = "object" /\ IsDef(schema.properties)
  THEN LET Prop(e) == Text(e[1])
                        \o (IF isRequiredIn(schema, e[1]) THEN "" ELSE "?")
                        \o ": " \o generateTypeFromSchema(e[2])
       IN "{ " \o Join(Map(Prop, schema.properties.v), "; ") \o " }"
  ELSE mapSwaggerTypeToTypeScript(schema.type)

generateTypeFromSchema(schema) ==
  IF TruthyStr(schema.ref)
  THEN LET last == pop(split(schema.ref.v, "/"))
           refName == IF last # <<>> THEN last ELSE <<"u","n","k","n","o","w","n">>
       IN Text(toPascalCase(refName))
  ELSE IF schema.type = "array" /\ IsDef(schema.items)
  THEN generateTypeFromSchema(schema.items.v) \o "[]"
  ELSE IF IsDef(schema.enum)
  THEN Join(Map(EnumLiteral, schema.enum.v), " | ")
  ELSE IF schema.type = "object" /\ IsDef(schema.properties)
  THEN LET Prop(e) == Text(e[1])
                        \o (IF isRequiredIn(schema, e[1]) THEN "" ELSE "?")
                        \o ": " \o generateTypeFromSchema(e[2])
       IN "{ " \o Join(Map(Prop, schema.properties.v), "; ") \o " }"
  ELSE mapSwaggerTypeToTypeScript(schema.type)

\* property descriptions are not modelled, so no comment line is emitted
generateInterface(name, schema) ==
  LET interfaceName == Text(toPascalCase(name))
  IN IF TruthyStr(schema.ref)
     THEN LET last == pop(split(schema.ref.v, "/"))
              refName == IF last # <<>> THEN last ELSE name
          IN "export type " \o interfaceName \o " = "
               \o Text(toPascalCase(refName)) \o ";"
     ELSE IF schema.type = "array" /\ IsDef(schema.items)
     THEN "export type " \o interfaceName \o " = "
            \o generateTypeFromSchema(schema.items.v) \o "[];"
     ELSE IF IsDef(schema.enum)
     THEN "export type " \o interfaceName \o " = "
            \o Join(Map(EnumLiteral, schema.enum.v), " | ") \o ";"
     ELSE IF schema.type = "object" \/ IsDef(schema.properties)
     THEN LET Prop(e) == "  " \o Text(e[1])
                           \o (IF isRequiredIn(schema, e[1]) THEN "" ELSE "?")
                           \o ": " \o generateTypeFromSchema(e[2]) \o ";\n"
              interfaceBody == IF IsDef(schema.properties)
                               THEN Join(Map(Prop, schema.properties.v), "")
                               ELSE ""
          IN "export interface " \o interfaceName \o " {\n" \o interfaceBody \o "}"
     ELSE "export type " \o interfaceName \o " = "
            \o mapSwaggerTypeToTypeScript(schema.type) \o ";"

\* generateTypeDefinitions: one interface per named schema, in table order
generateInterfaces(schemaTable) ==
  LET Named(e) == generateInterface(e[1], e[2])
  IN Map(Named, schemaTable)

\* ApiGenerator.generate: one file per storage group, in group order.  Of the
\* text of generateApiFile the content keeps the interpolated values: the
\* class name, the imported database class, the singleton's name, the
\* generated functions and the exported bindings, in order.
ExportOf(ep) == Text(generateFunctionName(ep))
\* a generator that emits one function and one binding per function name
RECURSIVE FirstOfEachName(_)
FirstOfEachName(endpoints) ==
  IF endpoints = <<>> THEN <<>>
  ELSE LET init == FirstOfEachName(SubSeq(endpoints, 1, Len(endpoints) - 1))
           last == endpoints[Len(endpoints)]
       IN IF \E i \in DOMAIN init : ExportOf(init[i]) = ExportOf(last)
          THEN init ELSE Append(init, last)
apiGenerate_Deduplicated(parsedSwagger) ==
  LET controllerGroups == groupEndpointsByController(parsedSwagger.endpoints)
      ApiFile(g) ==
        [path |-> "api/" \o Text(g[1]) \o "-api.ts",
         content |-> [kind |-> "api",
                      controller |-> Text(g[1]),
                      className |-> Text(toPascalCase(g[1])) \o "Api",
                      dbClassName |-> Text(g[1]) \o "Database",
                      instanceName |-> Text(g[1]) \o "Api",
                      functions |-> Map(generateApiFunction, FirstOfEachName(g[2])),
                      exports |-> Map(ExportOf, FirstOfEachName(g[2]))]]
  IN Map(ApiFile, controllerGroups)
apiGenerate(parsedSwagger) ==
  LET controllerGroups == groupEndpointsByController(parsedSwagger.endpoints)
      ApiFile(g) ==
        [path |-> "api/" \o Text(g[1]) \o "-api.ts",
         content |-> [kind |-> "api",
                      controller |-> Text(g[1]),
                      className |-> Text(toPascalCase(g[1])) \o "Api",
                      dbClassName |-> Text(g[1]) \o "Database",
                      instanceName |-> Text(g[1]) \o "Api",
                      functions |-> Map(generateApiFunction, g[2]),
                      exports |-> Map(ExportOf, g[2])]]
  IN Map(ApiFile, controllerGroups)

\* The emitted api file as JavaScript.  The class body holds one method
\* definition per generated function: a later definition of a method name
\* replaces the earlier one, so the class keeps, for each name, the function
\* emitted last.  The module then declares one `export const <name> = ...`
\* per binding: two declarations of one name in a module are a redeclaration
\* error, so the module has its bindings only when the names are distinct.
ClassMethod(content, name) ==
  LET defs == {k \in DOMAIN content.functions : content.functions[k].functionName = name}
  IN content.functions[CHOOSE k \in defs : \A other \in defs : other <= k]
ExportsDeclaredOnce(content) ==
  \A i, j \in DOMAIN content.exports : content.exports[i] = content.exports[j] => i = j

----------------------------------------------------------------------------
(* SwaggerSpecParser.parse (src/types/cli-types.ts, lines 89-133) *)

\* pathItem[method]: the value declared under the key, Undefined when absent
\* (a path item never carries a key twice)
Lookup(decl, key) ==
  IF \E i \in DOMAIN decl : decl[i][1] = key
  THEN Def(decl[CHOOSE i \in DOMAIN decl : decl[i][1] = key][2])
  ELSE Undefined

\* parsePathItem iterating the path item's own keys, in declared order
parsePathItem_DeclaredOrder(path, pathItem, m) ==
  LET IsMethod(e) == e[1] \in Range(methods)
      Parse(e) == parseOperation(path, e[1], e[2])
  IN Map(Parse, SelectSeq(pathItem, IsMethod))

\* for (const method of methods) { if (pathItem[method]) push(parseOperation) }
RECURSIVE parsePathItem(_, _, _)
parsePathItem(path, pathItem, m) ==
  IF m > Len(methods) THEN <<>>
  ELSE LET operation == Lookup(pathItem, methods[m])
       IN (IF IsDef(operation)
           THEN <<parseOperation(path, methods[m], operation.v)>>
           ELSE <<>>)
          \o parsePathItem(path, pathItem, m + 1)

\* for (const [path, pathItem] of Object.entries(api.paths))
RECURSIVE parsePaths(_)
parsePaths(entries) ==
  IF entries = <<>> THEN <<>>
  ELSE parsePathItem(entries[1][1], entries[1][2], 1) \o parsePaths(Tail(entries))

\* for (const [name, schema] of Object.entries(api.components.schemas))
parseSchemas(componentSchemas) ==
  LET parseNamed(e) == <<e[1], parseSchema(Def(e[2]))>>
  IN IF IsDef(componentSchemas)
     THEN Map(parseNamed, ObjectEntries(componentSchemas.v))
     ELSE <<>>

\* the ParsedSwagger built from a validated document; info, servers and the
\* components pass-through are read by no generator decision modelled here
parse(doc) ==
  [endpoints |-> IF IsDef(doc.paths) THEN parsePaths(ObjectEntries(doc.paths.v)) ELSE <<>>,
   schemas |-> parseSchemas(doc.schemas)]

----------------------------------------------------------------------------
(* DbGenerator and CodeGenerator (src/generator/type-generator.ts lines
   218-717, src/generator/code-generator.ts) *)

Null == [t |-> "null"]

\* controllers.add(x) for x over xs, in order: a Set keeps first insertions
RECURSIVE AddAll(_, _)
AddAll(controllers, xs) ==
  IF xs = <<>> THEN controllers
  ELSE AddAll(IF xs[1] \in Range(controllers) THEN controllers
              ELSE Append(controllers, xs[1]),
              Tail(xs))
\* endpoint.tags?.[0] || 'default'
FirstTagOf(ep) ==
  IF IsDef(ep.tags) /\ Len(ep.tags.v) > 0 /\ ep.tags.v[1] # <<>> THEN ep.tags.v[1]
  ELSE S_default
\* a getUniqueControllers that adds the tag as it is written
getUniqueControllers_CaseSensitive(parsedSwagger) ==
  AddAll(<<>>, Map(FirstTagOf, parsedSwagger.endpoints))
\* controllers.add(tag.toLowerCase()) for every endpoint, then
\* Array.from(controllers)
getUniqueControllers(parsedSwagger) ==
  LET Key(ep) == toLowerCase(FirstTagOf(ep))
  IN AddAll(<<>>, Map(Key, parsedSwagger.endpoints))

\* a lookup that falls back to the first seed entry for a storage group
\* without an entry of its own
controllerSeedDataOf_FallbackToFirstEntry(seed, controller) ==
  IF ~IsDef(seed) THEN Null
  ELSE LET value == Lookup(seed.v, controller)
       IN IF IsDef(value) THEN value
          ELSE IF seed.v = <<>> THEN Null ELSE Def(seed.v[1][2])
\* seedData?.[controller] || null, and the records generateDbFile embeds in
\* seedData() (none unless the list is non-empty)
controllerSeedDataOf(seed, controller) ==
  IF ~IsDef(seed) THEN Null
  ELSE LET value == Lookup(seed.v, controller)
       IN IF IsDef(value) THEN value ELSE Null
EmbeddedSeed(controllerSeedData) ==
  IF IsDef(controllerSeedData) /\ Len(controllerSeedData.v) > 0
  THEN controllerSeedData.v
  ELSE <<>>

\* DbGenerator.generate(parsedSwagger, outputDir, seedData): db-setup.ts, then
\* one database file per storage group
dbGenerate(parsedSwagger, seed) ==
  LET controllerGroups == groupEndpointsByController(parsedSwagger.endpoints)
      DbFile(g) ==
        [path |-> "db/" \o Text(g[1]) \o "-db.ts",
         content |-> [kind |-> "db",
                      controller |-> Text(g[1]),
                      controllerName |-> Text(toPascalCase(g[1])),
                      className |-> Text(g[1]) \o "Database",
                      storeName |-> Text(g[1]),
                      seedRecords |-> EmbeddedSeed(controllerSeedDataOf(seed, g[1]))]]
  IN <<[path |-> "db/db-setup.ts",
        content |-> [kind |-> "db-setup",
                     storeNames |-> Map(Text, getUniqueControllers(parsedSwagger))]]>>
       \o Map(DbFile, controllerGroups)

\* CodeGenerator.generateIndexFiles: the four index files, in write order
generateIndexFiles(parsedSwagger) ==
  LET ApiModule(c) == Text(c) \o "-api"
      DbModule(c) == Text(c) \o "-db"
  IN <<[path |-> "index.ts",
        content |-> [kind |-> "index",
                     exports |-> <<"types", "api", "db", "config/api-config">>]],
       [path |-> "types/index.ts",
        content |-> [kind |-> "index", exports |-> <<"index.types">>]],
       [path |-> "api/index.ts",
        content |-> [kind |-> "index",
                     exports |-> Map(ApiModule, getUniqueControllers(parsedSwagger))]],
       [path |-> "db/index.ts",
        content |-> [kind |-> "index",
                     exports |-> <<"db-setup">>
                                   \o Map(DbModule, getUniqueControllers(parsedSwagger))]]>>

----------------------------------------------------------------------------
(* Inputs of the operation-level specification SpecOp *)

MaxResponses == 2

P_pets == <<"/","p","e","t","s">>
P_petsId == <<"/","p","e","t","s","/","{","i","d","}">>
P_userPosts == <<"/","u","s","e","r","s","/","{","i","d","}","/","p","o","s","t","s">>
P_profiles == <<"/","u","s","e","r","s","/","p","r","o","f","i","l","e","s">>
P_root == <<"/">>
OpPaths == {P_pets, P_petsId, P_userPosts, P_profiles, P_root}

Id_listPets == <<"l","i","s","t","P","e","t","s">>
Id_get_user == <<"g","e","t","_","u","s","e","r">>
OperationIds == {Undefined, Def(Id_listPets), Def(Id_get_user)}

T_userDashProfile == <<"u","s","e","r","-","p","r","o","f","i","l","e">>
T_userUnderProfile == <<"u","s","e","r","_","p","r","o","f","i","l","e">>
T_UserDashProfile == <<"U","s","e","r","-","P","r","o","f","i","l","e">>
T_Users == <<"U","s","e","r","s">>
TagLists == {Undefined, Def(<<>>), Def(<<T_Users, T_userDashProfile>>)}

StatusCodes == { <<"2","0","0">>, <<"2","0","1">>, <<"4","0","0">>, <<"4","0","4">>,
                 S_default }
RawResponse == [description |-> Undefined, content |-> Undefined]

\* sequences without repetition, of length at most n, over the set S
RECURSIVE DistinctSeqs(_, _)
DistinctSeqs(S, n) ==
  IF n = 0 THEN {<<>>}
  ELSE LET shorter == DistinctSeqs(S, n - 1)
           longest == {q \in shorter : Len(q) = n - 1}
       IN shorter \cup UNION {{Append(q, x) : x \in S \ Range(q)} : q \in longest}

\* the responses object of an operation, as <<status code, response>> pairs
\* in the order the document declares them
ResponseDecls ==
  {[i \in DOMAIN codes |-> <<codes[i], RawResponse>>] :
     codes \in DistinctSeqs(StatusCodes, MaxResponses)}
ResponseObjects == {Undefined} \cup {Def(d) : d \in ResponseDecls}

StringSchema ==
  [type |-> Def("string"), ref |-> Undefined, properties |-> Undefined,
   items |-> Undefined, required |-> Undefined, enum |-> Undefined]
IntegerSchema == [StringSchema EXCEPT !.type = Def("integer")]
Param_id == [name |-> <<"i","d">>, in |-> "path", required |-> Def(TRUE),
             schema |-> Def(StringSchema)]
Param_limit == [name |-> <<"l","i","m","i","t">>, in |-> "query",
                required |-> Undefined, schema |-> Def(IntegerSchema)]
Param_q == [name |-> <<"q">>, in |-> "query", required |-> Def(TRUE),
            schema |-> Def(StringSchema)]
Param_postId == [name |-> <<"p","o","s","t","I","d">>, in |-> "path",
                 required |-> Def(TRUE), schema |-> Def(IntegerSchema)]
Param_trace == [name |-> <<"X","-","T","r","a","c","e">>, in |-> "header",
                required |-> Undefined, schema |-> Undefined]
BasicParameterLists == {Undefined, Def(<<Param_id, Param_limit>>)}
ParameterLists ==
  BasicParameterLists
    \cup {Def(<<>>), Def(<<Param_trace>>), Def(<<Param_id>>), Def(<<Param_q>>),
          Def(<<Param_q, Param_postId, Param_limit, Param_id>>)}

RawRequestBody == [required |-> Undefined, content |-> Undefined]
RequestBodies == {Undefined, Def(RawRequestBody)}

\* an operation varies its parameters or its responses: one that declares a
\* responses object takes its parameters from BasicParameterLists
RawOperations ==
  {o \in [operationId : OperationIds, tags : TagLists, parameters : ParameterLists,
          requestBody : RequestBodies, responses : ResponseObjects] :
     IsDef(o.responses) => o.parameters \in BasicParameterLists}

----------------------------------------------------------------------------
(* SpecOp: one operation through parseOperation and the API generator *)

CmdIdle ==
  /\ pc = "idle" /\ inputExists = FALSE /\ seedFile = Undefined
  /\ seedData = Undefined /\ parsedSpec = Undefined /\ api = Undefined
  /\ dbGenSeed = Undefined /\ files = <<>> /\ outcome = Undefined
  /\ calls = <<>> /\ console = <<>> /\ thrown = Undefined
  /\ options = Undefined /\ config = Undefined
TyIdle ==
  /\ tyPc = "idle" /\ rawTypes = Undefined /\ parsedTypes = Undefined
  /\ typeDefs = Undefined
OpIdle ==
  /\ opPc = "idle" /\ rawOp = Undefined /\ endpoint = Undefined /\ route = Undefined
DbIdle == tasks = Undefined /\ deleted = Undefined
NameIdle == namePc = "idle" /\ rawName = Undefined /\ pascalNames = Undefined
StoreIdle ==
  /\ runPc = "idle" /\ genInput = Undefined /\ gen = Undefined /\ store = Undefined
  /\ seedCall = Undefined /\ result = Undefined /\ DbIdle
RunIdle == StoreIdle /\ NameIdle

InitOp ==
  /\ opPc = "raw"
  /\ rawOp \in [path : OpPaths, method : Range(methods), operation : RawOperations]
  /\ endpoint = Undefined
  /\ route = Undefined
  /\ CmdIdle /\ TyIdle /\ RunIdle

\* SwaggerSpecParser.parseOperation(path, method, operation)
ParseOperation ==
  /\ opPc = "raw"
  /\ endpoint' = parseOperation(rawOp.path, rawOp.method, rawOp.operation)
  /\ opPc' = "parsed"
  /\ UNCHANGED <<rawOp, route, cmdVars, tyVars, runVars, dbVars, nameVars>>

\* ApiGenerator.generate for the parsed operation: its storage group and the
\* function generateApiFile emits for it
ClassifyOperation ==
  /\ opPc = "parsed"
  /\ LET groups == groupEndpointsByController(<<endpoint>>)
     IN route' = [controller |-> groups[1][1],
                  fn |-> generateApiFunction(groups[1][2][1])]
  /\ opPc' = "classified"
  /\ UNCHANGED <<rawOp, endpoint, cmdVars, tyVars, runVars, dbVars, nameVars>>

NextOp == ParseOperation \/ ClassifyOperation
SpecOp == InitOp /\ [][NextOp]_vars


----------------------------------------------------------------------------
(* generateCommand (src/cli/commands.ts) *)

\* loadConfig(options).  An option is Undefined when absent; options.delay is
\* a string; options.config is Undefined or the config file it names:
\* whether fs.readJson can read it and the JSON object it holds, as a
\* function from its keys to their values.
ConfigName == "./config.json"
defaultConfigOf(opts) ==
  [dbName |-> IF IsDef(opts.dbName) /\ opts.dbName.v # "" THEN opts.dbName.v
              ELSE "mockApiDB",
   responseDelay |-> parseInt(IF TruthyStr(opts.delay) THEN opts.delay.v
                              ELSE <<"2","0","0">>),
   enableLogging |-> IF IsDef(opts.verbose) THEN opts.verbose.v ELSE FALSE,
   enableValidation |-> opts.validation # Def(FALSE),
   outputFormat |-> "typescript",
   errorRate |-> 0,
   generateTests |-> FALSE]
\* { ...defaultConfig, ...configFile }
Spread(defaultConfig, configFile) ==
  [key \in DOMAIN defaultConfig \cup DOMAIN configFile |->
     IF key \in DOMAIN configFile THEN configFile[key] ELSE defaultConfig[key]]
\* a loadConfig that lets the defaults win over the config file
loadConfig_DefaultsWin(opts) ==
  IF IsDef(opts.config) /\ opts.config.v.readable
  THEN Spread(opts.config.v.json, defaultConfigOf(opts))
  ELSE defaultConfigOf(opts)
loadConfig(opts) ==
  IF IsDef(opts.config) /\ opts.config.v.readable
  THEN Spread(defaultConfigOf(opts), opts.config.v.json)
  ELSE defaultConfigOf(opts)
loadConfigWarnings(opts) ==
  IF IsDef(opts.config) /\ ~opts.config.v.readable
  THEN <<[level |-> "warn",
          text |-> "Warning: Could not load config file " \o ConfigName
                     \o ", using defaults"]>>
  ELSE <<>>

\* options.input and options.seed of the run
InputName == "swagger.json"
SeedName == "seed.json"
\* the message of the error fs.readJson throws on a file it cannot read
ReadError == "Unexpected token } in JSON"

\* loadSeedData(options): seed is Undefined without --seed, else the seed
\* file: whether it exists, whether readJson can read it, and its JSON value,
\* either [k |-> "object", entries |-> <<key, value>> pairs as declared] with
\* value = [isArray |-> .., items |-> ..], or [k |-> "array", entries |-> the
\* <<index, element>> pairs], or a value of another kind k.  The guard is
\* typeof seedContent !== 'object' || seedContent === null, and typeof of a
\* JSON array is 'object'.
loadSeedData(seed) ==
  IF ~IsDef(seed) THEN Null
  ELSE IF ~seed.v.exists THEN Null
  ELSE IF ~seed.v.readable THEN Null
  ELSE IF seed.v.json.k \notin {"object", "array"} THEN Null
  ELSE LET IsArrayEntry(e) == e[2].isArray
           Validated(e) == <<e[1], e[2].items>>
       IN Def(Map(Validated, SelectSeq(ObjectEntries(seed.v.json.entries), IsArrayEntry)))

\* the console.warn calls of loadSeedData(options), in order
loadSeedDataWarnings(seed) ==
  LET Warn(text) == [level |-> "warn", text |-> text]
      CouldNotLoad(message) ==
        Warn("Warning: Could not load seed file " \o SeedName \o ": " \o message)
  IN IF ~IsDef(seed) THEN <<>>
     ELSE IF ~seed.v.exists THEN <<Warn("Warning: Seed file not found: " \o SeedName)>>
     ELSE IF ~seed.v.readable THEN <<CouldNotLoad(ReadError)>>
     ELSE IF seed.v.json.k \notin {"object", "array"}
          THEN <<CouldNotLoad("Seed data must be a JSON object")>>
     ELSE LET IsNotArrayEntry(e) == ~e[2].isArray
              Skipped(e) == Warn("Warning: Seed data for '" \o Text(e[1])
                                   \o "' is not an array, skipping")
          IN Map(Skipped, SelectSeq(ObjectEntries(seed.v.json.entries), IsNotArrayEntry))

MaxOps == 2

S_trace == <<"t","r","a","c","e">>
DocPaths == {P_pets, P_petsId}
DocVerbs == {S_get, S_post, S_trace}
DocTagLists == {Undefined, Def(<<T_userDashProfile>>),
                Def(<<T_userUnderProfile>>), Def(<<T_UserDashProfile>>)}
DocOperations ==
  [operationId : {Undefined}, tags : DocTagLists, parameters : {Undefined},
   requestBody : {Undefined}, responses : {Undefined}]

\* A document declares at most MaxOps operations; decls lists them as
\* <<path, verb, operation>> in the order of the document's text.  The
\* object SwaggerParser.validate returns holds the paths in the order of
\* their first declaration and, under each path, the verbs in declared order.
Declarations ==
  {d \in DistinctSeqs(DocPaths \X DocVerbs \X DocOperations, MaxOps) :
     \A i, j \in DOMAIN d : (d[i][1] = d[j][1] /\ d[i][2] = d[j][2]) => i = j}
RECURSIVE PathsOf(_)
PathsOf(decls) ==
  IF decls = <<>> THEN <<>>
  ELSE LET init == PathsOf(SubSeq(decls, 1, Len(decls) - 1))
           path == decls[Len(decls)][1]
       IN IF path \in Range(init) THEN init ELSE Append(init, path)
DocumentOf(decls) ==
  LET paths == PathsOf(decls)
      PathItem(path) ==
        LET OnPath(d) == d[1] = path
            Entry(d) == <<d[2], d[3]>>
        IN Map(Entry, SelectSeq(decls, OnPath))
  IN [paths |-> Def([i \in DOMAIN paths |-> <<paths[i], PathItem(paths[i])>>]),
      schemas |-> Undefined]
\* components.schemas of a document that declares the named schema
\* user-profile; documents of at most one operation come with and without it
DocSchemas == << <<T_userDashProfile, [StringSchema EXCEPT !.type = Def("object")]>> >>
\* documents of two operations whose operationIds, get_user and getUser,
\* differ but give one function name
Id_getUser == <<"g","e","t","U","s","e","r">>
CollidingOperation(operationId) ==
  [operationId |-> Def(operationId), tags |-> Undefined, parameters |-> Undefined,
   requestBody |-> Undefined, responses |-> Undefined]
CollidingDeclarations ==
  {d \in [1 .. 2 -> DocPaths \X DocVerbs
                       \X {CollidingOperation(Id_get_user), CollidingOperation(Id_getUser)}] :
     /\ <<d[1][1], d[1][2]>> # <<d[2][1], d[2][2]>>
     /\ d[1][3] # d[2][3]}
Documents ==
  {DocumentOf(d) : d \in Declarations \cup CollidingDeclarations}
    \cup {[DocumentOf(d) EXCEPT !.schemas = Def(DocSchemas)] :
            d \in {e \in Declarations : Len(e) <= 1}}

SeedValue(items) == [isArray |-> TRUE, items |-> items]
NotAnArray == [isArray |-> FALSE, items |-> <<>>]
SeedFile(exists, readable, json) ==
  Def([exists |-> exists, readable |-> readable, json |-> json])
\* no --seed; a missing file; a file readJson cannot read; the JSON values
\* "text", null and []; two JSON objects
SeedFiles ==
  {Undefined,
   SeedFile(FALSE, TRUE, [k |-> "null"]),
   SeedFile(TRUE, FALSE, [k |-> "null"]),
   SeedFile(TRUE, TRUE, [k |-> "string"]),
   SeedFile(TRUE, TRUE, [k |-> "null"]),
   SeedFile(TRUE, TRUE, [k |-> "array", entries |-> <<>>]),
   SeedFile(TRUE, TRUE, [k |-> "object",
                         entries |-> << <<T_userDashProfile, SeedValue(<<"r1">>)>>,
                                        <<S_default, NotAnArray>> >>]),
   SeedFile(TRUE, TRUE, [k |-> "object",
                         entries |-> << <<S_default, SeedValue(<<"r1", "r2">>)>>,
                                        <<T_userUnderProfile, SeedValue(<<>>)>> >>])}

\* the documents a run with the given --seed is given: every seed file is
\* run with every document of at most one operation, and the larger
\* documents are run without --seed
SmallDeclarations == {d \in Declarations : Len(d) <= 1}
DocumentsFor(seed) ==
  IF IsDef(seed)
  THEN {DocumentOf(d) : d \in SmallDeclarations}
         \cup {[DocumentOf(d) EXCEPT !.schemas = Def(DocSchemas)] : d \in SmallDeclarations}
  ELSE Documents

\* the options of a run: none; or any combination of --db-name, --delay,
\* --verbose, --no-validation and --config with a config file that cannot be
\* read, is empty, overrides two keys, or overrides four keys and adds one
NoOptions ==
  [dbName |-> Undefined, delay |-> Undefined, verbose |-> Undefined,
   validation |-> Undefined, config |-> Undefined]
EmptyJson == [key \in {} |-> 0]
ConfigFile(readable, json) == Def([readable |-> readable, json |-> json])
ConfigFiles ==
  {Undefined,
   ConfigFile(FALSE, EmptyJson),
   ConfigFile(TRUE, EmptyJson),
   ConfigFile(TRUE, [dbName |-> "fileDB", errorRate |-> 1]),
   ConfigFile(TRUE, [responseDelay |-> 0, enableLogging |-> TRUE, enableValidation |-> FALSE,
                     generateTests |-> TRUE, theme |-> "dark"])}
OptionSets ==
  [dbName : {Undefined, Def("petsDB")},
   delay : {Undefined, Def(<<"5","0","0">>), Def(<<>>)},
   verbose : {Undefined, Def(TRUE)},
   validation : {Undefined, Def(FALSE)},
   config : ConfigFiles]
\* a run with options is given the document without operations
DocumentsOfRun ==
  IF options = NoOptions THEN DocumentsFor(seedFile) ELSE {DocumentOf(<<>>)}

\* the messages a rejected SwaggerParser.validate carries
ValidationMessages == {"Invalid swagger specification", "Missing required property: paths"}
\* the message of an error thrown by fs.ensureDir / fs.writeFile
StepErrors == {"EACCES: permission denied"}

Init ==
  /\ pc = "start"
  /\ inputExists \in BOOLEAN
  /\ \/ options = NoOptions /\ seedFile \in SeedFiles
     \/ options \in OptionSets /\ seedFile = Undefined
  /\ config = Undefined
  /\ seedData = Undefined
  /\ api = Undefined
  /\ parsedSpec = Undefined
  /\ dbGenSeed = Undefined
  /\ files = <<>>
  /\ outcome = Undefined
  /\ calls = <<>>
  /\ console = <<>>
  /\ thrown = Undefined
  /\ OpIdle /\ TyIdle /\ RunIdle

Fail(text) == [spinner |-> "fail", text |-> text, exitCode |-> 1]

\* catch (error) { spinner.fail('Generation failed');
\*                 console.error('Error:', error.message); process.exit(1) }
\* (with --verbose the same error is printed under 'Error details:')
Catch(message) ==
  /\ thrown' = Def(message)
  /\ outcome' = Fail("Generation failed")
  /\ console' = Append(console, [level |-> "error", text |-> message])
  /\ pc' = "exited"

\* the continuation of a missing input file under a process.exit that returned
CheckInput_ExitReturns ==
  /\ pc = "start"
  /\ pc' = "loadConfig"
  /\ outcome' = IF inputExists THEN outcome
                ELSE Fail("Input file not found: " \o InputName)
  /\ UNCHANGED <<options, config, inputExists, seedFile, seedData, parsedSpec, api, dbGenSeed, files,
                 calls, console, thrown, opVars, tyVars, runVars, dbVars, nameVars>>
\* if (!await fs.pathExists(input)) { spinner.fail(...); process.exit(1) }
CheckInput ==
  /\ pc = "start"
  /\ IF inputExists
     THEN pc' = "loadConfig" /\ UNCHANGED outcome
     ELSE pc' = "exited" /\ outcome' = Fail("Input file not found: " \o InputName)
  /\ UNCHANGED <<options, config, inputExists, seedFile, seedData, parsedSpec, api, dbGenSeed, files,
                 calls, console, thrown, opVars, tyVars, runVars, dbVars, nameVars>>

\* const config = await loadConfig(options)
LoadConfig ==
  /\ pc = "loadConfig"
  /\ calls' = Append(calls, "loadConfig")
  /\ config' = loadConfig(options)
  /\ console' = console \o loadConfigWarnings(options)
  /\ pc' = "loadSeedData"
  /\ UNCHANGED <<options, inputExists, seedFile, seedData, parsedSpec, api, dbGenSeed,
                 files, outcome, thrown, opVars, tyVars, runVars, dbVars, nameVars>>

\* const seedData = await loadSeedData(options)
LoadSeedData ==
  /\ pc = "loadSeedData"
  /\ calls' = Append(calls, "loadSeedData")
  /\ seedData' = loadSeedData(seedFile)
  /\ console' = console \o loadSeedDataWarnings(seedFile)
  /\ pc' = "parse"
  /\ UNCHANGED <<options, config, inputExists, seedFile, parsedSpec, api, dbGenSeed, files, outcome,
                 thrown, opVars, tyVars, runVars, dbVars, nameVars>>

\* parser.parse(input) when SwaggerParser.validate resolves with the document
ParseDocument ==
  /\ pc = "parse"
  /\ calls' = Append(calls, "parser.parse")
  /\ \E doc \in DocumentsOfRun :
       /\ api' = doc
       /\ parsedSpec' = parse(doc)
  /\ pc' = "ensureDir"
  /\ UNCHANGED <<options, config, inputExists, seedFile, seedData, dbGenSeed, files, outcome,
                 console, thrown, opVars, tyVars, runVars, dbVars, nameVars>>

\* the error parse rethrows from its catch
ParseError(message) == "Failed to parse Swagger specification: " \o message

\* a parse that swallows the validation error and returns the IR built so far
ParseRejected_PartialIR ==
  /\ pc = "parse"
  /\ calls' = Append(calls, "parser.parse")
  /\ \E m \in ValidationMessages : api' = [t |-> "rejected", message |-> m]
  /\ parsedSpec' = [endpoints |-> <<>>, schemas |-> <<>>]
  /\ pc' = "ensureDir"
  /\ UNCHANGED <<options, config, inputExists, seedFile, seedData, dbGenSeed, files, outcome,
                 console, thrown, opVars, tyVars, runVars, dbVars, nameVars>>
\* parser.parse(input) when SwaggerParser.validate rejects: parse throws
\* 'Failed to parse Swagger specification: ...' before it returns anything,
\* generateCommand catches it and exits
ParseRejected ==
  /\ pc = "parse"
  /\ calls' = Append(calls, "parser.parse")
  /\ \E m \in ValidationMessages :
       /\ api' = [t |-> "rejected", message |-> m]
       /\ Catch(ParseError(m))
  /\ UNCHANGED <<options, config, inputExists, seedFile, seedData, parsedSpec, dbGenSeed, files,
                 opVars, tyVars, runVars, dbVars, nameVars>>

\* generator.generate(parsedSpec, options.output, seedData) has two
\* parameters, parsedSwagger and outputDir: the third argument is dropped.
\* await fs.ensureDir(...) for the output directory and its subdirectories
EnsureDirs ==
  /\ pc = "ensureDir"
  /\ calls' = calls \o <<"generator.generate", "ensureDir">>
  /\ pc' = "typeGenerator"
  /\ UNCHANGED <<options, config, inputExists, seedFile, seedData, parsedSpec, api, dbGenSeed, files,
                 outcome, console, thrown, opVars, tyVars, runVars, dbVars, nameVars>>

\* await this.typeGenerator.generate(parsedSwagger, typesDir)
RunTypeGenerator ==
  /\ pc = "typeGenerator"
  /\ calls' = Append(calls, "typeGenerator")
  /\ files' = Append(files,
                [path |-> "types/index.types.ts",
                 content |-> [kind |-> "types",
                              interfaces |-> generateInterfaces(parsedSpec.schemas)]])
  /\ pc' = "apiGenerator"
  /\ UNCHANGED <<options, config, inputExists, seedFile, seedData, parsedSpec, api, dbGenSeed, outcome,
                 console, thrown, opVars, tyVars, runVars, dbVars, nameVars>>

\* await this.apiGenerator.generate(parsedSwagger, apiDir)
RunApiGenerator ==
  /\ pc = "apiGenerator"
  /\ calls' = Append(calls, "apiGenerator")
  /\ files' = files \o apiGenerate(parsedSpec)
  /\ pc' = "dbGenerator"
  /\ UNCHANGED <<options, config, inputExists, seedFile, seedData, parsedSpec, api, dbGenSeed, outcome,
                 console, thrown, opVars, tyVars, runVars, dbVars, nameVars>>

\* await this.dbGenerator.generate(parsedSwagger, dbDir): no third argument,
\* so DbGenerator.generate receives seedData = undefined
RunDbGenerator ==
  /\ pc = "dbGenerator"
  /\ calls' = Append(calls, "dbGenerator")
  /\ dbGenSeed' = Undefined
  /\ files' = files \o dbGenerate(parsedSpec, Undefined)
  /\ pc' = "config"
  /\ UNCHANGED <<options, config, inputExists, seedFile, seedData, parsedSpec, api, outcome,
                 console, thrown, opVars, tyVars, runVars, dbVars, nameVars>>

\* await this.generateConfig(parsedSwagger, configDir)
GenerateConfig ==
  /\ pc = "config"
  /\ calls' = Append(calls, "config")
  /\ files' = Append(files, [path |-> "config/api-config.ts",
                             content |-> [kind |-> "config"]])
  /\ pc' = "indexFiles"
  /\ UNCHANGED <<options, config, inputExists, seedFile, seedData, parsedSpec, api, dbGenSeed, outcome,
                 console, thrown, opVars, tyVars, runVars, dbVars, nameVars>>

\* await this.generateIndexFiles(parsedSwagger, outputDir), then
\* spinner.succeed(...) back in generateCommand
GenerateIndexFiles ==
  /\ pc = "indexFiles"
  /\ calls' = Append(calls, "indexFiles")
  /\ files' = files \o generateIndexFiles(parsedSpec)
  /\ outcome' = [spinner |-> "succeed",
                 text |-> "Successfully generated TypeScript API files!",
                 exitCode |-> 0]
  /\ pc' = "done"
  /\ UNCHANGED <<options, config, inputExists, seedFile, seedData, parsedSpec, api, dbGenSeed,
                 console, thrown, opVars, tyVars, runVars, dbVars, nameVars>>

\* the steps of CodeGenerator.generate in the order of its awaits, named by
\* the position of generateCommand while the step runs
GeneratorSteps ==
  <<"ensureDir", "typeGenerator", "apiGenerator", "dbGenerator", "config", "indexFiles">>

\* the files a step of CodeGenerator.generate writes, in write order
StepFiles(step, parsedSwagger) ==
  CASE step = "ensureDir" -> <<>>
    [] step = "typeGenerator" ->
         <<[path |-> "types/index.types.ts",
            content |-> [kind |-> "types",
                         interfaces |-> generateInterfaces(parsedSwagger.schemas)]]>>
    [] step = "apiGenerator" -> apiGenerate(parsedSwagger)
    [] step = "dbGenerator" -> dbGenerate(parsedSwagger, Undefined)
    [] step = "config" ->
         <<[path |-> "config/api-config.ts", content |-> [kind |-> "config"]]>>
    [] step = "indexFiles" -> generateIndexFiles(parsedSwagger)

\* a generate whose steps catch their own error: the error is logged and
\* the next step runs
StepThrows_Swallowed ==
  /\ pc \in Range(GeneratorSteps) \ {"indexFiles"}
  /\ calls' = calls \o (IF pc = "ensureDir" THEN <<"generator.generate">> ELSE <<>>)
                    \o <<pc>>
  /\ \E m \in StepErrors :
       /\ thrown' = Def(m)
       /\ console' = Append(console, [level |-> "error", text |-> m])
  /\ pc' = CHOOSE next \in Range(GeneratorSteps) :
              \E i \in 1 .. Len(GeneratorSteps) - 1 :
                 GeneratorSteps[i] = pc /\ GeneratorSteps[i + 1] = next
  /\ UNCHANGED <<options, config, inputExists, seedFile, seedData, parsedSpec, api, dbGenSeed, files,
                 outcome, opVars, tyVars, runVars, dbVars, nameVars>>
\* a step of CodeGenerator.generate rejects (fs.ensureDir or one of the
\* step's fs.writeFile calls throws, after the files written before it):
\* nothing in generate catches, so the await rethrows out of generate and
\* generateCommand's catch runs
StepThrows ==
  /\ pc \in Range(GeneratorSteps)
  /\ calls' = calls \o (IF pc = "ensureDir" THEN <<"generator.generate">> ELSE <<>>)
                    \o <<pc>>
  /\ LET stepFiles == StepFiles(pc, parsedSpec)
         written == IF stepFiles = <<>> THEN {0} ELSE 0 .. Len(stepFiles) - 1
     IN \E k \in written : files' = files \o SubSeq(stepFiles, 1, k)
  /\ \E m \in StepErrors : Catch(m)
  /\ UNCHANGED <<options, config, inputExists, seedFile, seedData, parsedSpec, api, dbGenSeed,
                 opVars, tyVars, runVars, dbVars, nameVars>>

Next ==
  \/ CheckInput
  \/ LoadConfig
  \/ LoadSeedData
  \/ ParseDocument
  \/ ParseRejected
  \/ EnsureDirs
  \/ RunTypeGenerator
  \/ RunApiGenerator
  \/ RunDbGenerator
  \/ GenerateConfig
  \/ GenerateIndexFiles
  \/ StepThrows
Spec == Init /\ [][Next]_vars

----------------------------------------------------------------------------
(* Claims about one operation (checked under SpecOp) *)

Classified == opPc = "classified"
Parsed == opPc \in {"parsed", "classified"}

\* the path ends in a path-parameter segment such as /pets/{id}
HasTrailingParam(path) == startsWith(pop(split(path, "/")), "{")

IntentTable(method, path) ==
  CASE method = S_get -> IF HasTrailingParam(path) THEN "findById" ELSE "findAll"
    [] method = S_post -> "create"
    [] method \in {S_put, S_patch} -> "update"
    [] method = S_delete -> "delete"
    [] OTHER -> "query"

\* C1: the database operation of every classified operation follows the
\* verb / path-shape table: GET is findById exactly when the path has a
\* trailing path-parameter segment and findAll otherwise, POST is create,
\* PUT and PATCH are update, DELETE is delete, any other verb is query.
C1_IntentByVerbAndTrailingParam ==
  Classified => route.fn.dbFunctionName = IntentTable(rawOp.method, rawOp.path)

\* the last non-parameter segment of a path, <<>> when it has none
LastResourceSegment(path) ==
  LET kept == SelectSeq(split(path, "/"), IsPartKept)
  IN IF Len(kept) > 0 THEN pop(kept) ELSE <<>>

\* C2: end to end, the function name of an operation is its declared
\* identifier in camel form, and verb + canonicalized last non-parameter path
\* segment when the document declares no identifier (GET /users/profiles
\* gives getProfiles).
C2_FunctionNameEndToEnd ==
  (Classified /\ LastResourceSegment(rawOp.path) # <<>>) =>
    route.fn.functionName =
      IF IsDef(rawOp.operation.operationId)
      THEN Text(toCamelCase(rawOp.operation.operationId.v))
      ELSE Text(rawOp.method \o toPascalCase(LastResourceSegment(rawOp.path)))

\* C6 as stated: parameters, responses and group tags of every parsed
\* operation are lists, never undefined.
C6_AllThreeAreLists ==
  Parsed => /\ IsDef(endpoint.parameters)
            /\ IsDef(endpoint.responses)
            /\ IsDef(endpoint.tags)

\* C6 (amended): parameters and responses of every parsed operation are
\* lists, empty when the operation declares none; group tags are carried as
\* declared, so they are undefined exactly when the operation declares none.
C6_ParametersAndResponsesAreLists ==
  Parsed => /\ IsDef(endpoint.parameters)
            /\ IsDef(endpoint.responses)
            /\ ~IsDef(rawOp.operation.parameters) => endpoint.parameters.v = <<>>
            /\ ~IsDef(rawOp.operation.responses) => endpoint.responses.v = <<>>
            /\ IsDef(rawOp.operation.parameters) =>
                 Len(endpoint.parameters.v) = Len(rawOp.operation.parameters.v)
            /\ IsDef(rawOp.operation.responses) =>
                 Len(endpoint.responses.v) = Len(rawOp.operation.responses.v)
            /\ endpoint.tags = rawOp.operation.tags

C6_Witness ==
  /\ opPc = "parsed"
  /\ ~IsDef(rawOp.operation.parameters)
  /\ ~IsDef(rawOp.operation.responses)
  /\ ~IsDef(rawOp.operation.tags)
  /\ endpoint.parameters = Def(<<>>)
  /\ endpoint.tags = Undefined

\* the status code of the first response, in the order the document declares
\* them, whose code begins with digit; <<>> when there is none
FirstDeclared(responses, digit) ==
  IF ~IsDef(responses) THEN <<>>
  ELSE LET decl == responses.v
           hits == {i \in DOMAIN decl : startsWith(decl[i][1], digit)}
       IN IF hits = {} THEN <<>>
          ELSE decl[CHOOSE i \in hits : \A j \in hits : i <= j][1]

\* C9: the success status is the numeric code of the first declared response
\* whose code begins with '2', and by default 201 for POST, 204 for DELETE
\* and 200 for every other verb.
C9_SuccessStatusFirstDeclared ==
  Classified =>
    LET first == FirstDeclared(rawOp.operation.responses, "2")
    IN route.fn.successStatus =
         IF first # <<>> THEN parseInt(first)
         ELSE CASE rawOp.method = S_post -> 201
                [] rawOp.method = S_delete -> 204
                [] OTHER -> 200

\* C10: the error status is the numeric code of the first declared response
\* whose code begins with '4', and 400 when none is declared.
C10_ErrorStatusFirstDeclared ==
  Classified =>
    LET first == FirstDeclared(rawOp.operation.responses, "4")
    IN route.fn.errorStatus = IF first # <<>> THEN parseInt(first) ELSE 400


\* the position in ps of the k-th parameter located in `where`
KthParamIn(ps, where, k) ==
  CHOOSE i \in DOMAIN ps :
    /\ ps[i].in = where
    /\ Cardinality({j \in 1..(i - 1) : ps[j].in = where}) = k - 1
CountParamsIn(ps, where) == Cardinality({i \in DOMAIN ps : ps[i].in = where})

----------------------------------------------------------------------------
(* SpecType: named schemas and one media-type schema through parseSchema and
   the type generator *)

MaxSchemas == 2

N_A == <<"A">>
N_B == <<"B">>
N_Missing == <<"M","i","s","s","i","n","g">>
N_id == <<"i","d">>
N_name == <<"n","a","m","e">>
SchemaNames == {N_A, N_B, T_userDashProfile}

RefPrefix == <<"#","/","c","o","m","p","o","n","e","n","t","s","/",
               "s","c","h","e","m","a","s","/">>
UntypedSchema == [StringSchema EXCEPT !.type = Undefined]
RefTo(name) == [UntypedSchema EXCEPT !.ref = Def(RefPrefix \o name)]
ArrayNoItems == [StringSchema EXCEPT !.type = Def("array")]
ArrayOf(items) == [ArrayNoItems EXCEPT !.items = Def(items)]
ObjectOf(properties, required) ==
  [UntypedSchema EXCEPT !.type = Def("object"), !.properties = Def(properties),
                        !.required = required]
EnumSchema ==
  [StringSchema EXCEPT !.enum = Def(<<[k |-> "string", v |-> <<"o","n">>],
                                      [k |-> "string", v |-> <<"o","f","f">>]>>)]

\* schemas of the shapes the resolver distinguishes: an object whose property
\* name is itself an object with its own required set, an object that
\* declares the property 1 after the property name, arrays of strings, of
\* arrays, of an enum and without items, and enums of strings and of numbers
N_1 == <<"1">>
NestedRequired ==
  ObjectOf(<< <<N_id, StringSchema>>,
              <<N_name, ObjectOf(<< <<N_id, IntegerSchema>>, <<N_name, StringSchema>> >>,
                                 Def(<<N_name>>))>> >>,
           Def(<<N_id>>))
NumericProperty ==
  ObjectOf(<< <<N_name, StringSchema>>, <<N_1, StringSchema>> >>, Def(<<N_1>>))
MixedEnum ==
  [UntypedSchema EXCEPT !.enum = Def(<<[k |-> "number", v |-> 2],
                                       [k |-> "string", v |-> <<"o","n">>],
                                       [k |-> "number", v |-> 1],
                                       [k |-> "string", v |-> <<"o","n">>]>>)]
ShapeSchemas ==
  {NestedRequired, NumericProperty, ArrayOf(NestedRequired),
   ArrayOf(StringSchema), ArrayOf(ArrayOf(StringSchema)), ArrayOf(EnumSchema),
   ArrayNoItems, ArrayOf(ArrayNoItems), EnumSchema, MixedEnum}

InlineSchemas ==
  {StringSchema, RefTo(N_A), RefTo(N_Missing), ArrayOf(RefTo(N_A)),
   ObjectOf(<< <<N_id, RefTo(N_B)>> >>, Undefined)}
NamedSchemas ==
  InlineSchemas \cup
  {UntypedSchema, RefTo(N_B), RefTo(T_userDashProfile), EnumSchema, ArrayNoItems,
   ArrayOf(StringSchema), ArrayOf(ArrayOf(RefTo(N_Missing))),
   ObjectOf(<< <<N_id, StringSchema>>, <<N_name, StringSchema>> >>, Def(<<N_id>>)),
   ObjectOf(<< <<N_name, RefTo(N_A)>> >>, Def(<<N_name>>)),
   ObjectOf(<< <<N_name, ObjectOf(<< <<N_id, RefTo(N_A)>> >>, Undefined)>> >>, Undefined)}

\* components.schemas: at most MaxSchemas named schemas, in declared order
SchemaTables ==
  UNION {[DOMAIN names -> NamedSchemas] \X {names} :
           names \in DistinctSeqs(SchemaNames, MaxSchemas)}
TableOf(t) == [i \in DOMAIN t[2] |-> <<t[2][i], t[1][i]>>]

\* every table of the bound with every media-type schema, and every
\* schema shape as the named schema A with every shape as media-type schema
InitType ==
  /\ tyPc = "raw"
  /\ \/ \E t \in SchemaTables, inline \in InlineSchemas :
          rawTypes = [schemas |-> TableOf(t), inline |-> inline]
     \/ \E named \in ShapeSchemas, inline \in ShapeSchemas :
          rawTypes = [schemas |-> << <<N_A, named>> >>, inline |-> inline]
  /\ parsedTypes = Undefined
  /\ typeDefs = Undefined
  /\ OpIdle /\ CmdIdle /\ RunIdle

\* SwaggerSpecParser.parse on the schemas, and parseSchema on a media type's
\* schema (parseMediaType)
ParseSchemas ==
  /\ tyPc = "raw"
  /\ parsedTypes' = [schemas |-> parseSchemas(Def(rawTypes.schemas)),
                     inline |-> parseSchema(Def(rawTypes.inline))]
  /\ tyPc' = "parsed"
  /\ UNCHANGED <<rawTypes, typeDefs, opVars, cmdVars, runVars, dbVars, nameVars>>

\* TypeGenerator.generateTypeDefinitions: generateInterface for every named
\* schema, generateTypeFromSchema for the media-type schema
GenerateTypes ==
  /\ tyPc = "parsed"
  /\ typeDefs' = [interfaces |-> generateInterfaces(parsedTypes.schemas),
                  inline |-> generateTypeFromSchema(parsedTypes.inline)]
  /\ tyPc' = "generated"
  /\ UNCHANGED <<rawTypes, parsedTypes, opVars, cmdVars, runVars, dbVars, nameVars>>

NextType == ParseSchemas \/ GenerateTypes
SpecType == InitType /\ [][NextType]_vars


----------------------------------------------------------------------------
(* Claims about reference resolution (checked under SpecType) *)

Generated == tyPc = "generated"

IsRef(node) == TruthyStr(node.ref)
TargetOf(node) == pop(split(node.ref.v, "/"))
DeclaredNames == {parsedTypes.schemas[i][1] : i \in DOMAIN parsedTypes.schemas}

\* every schema node of a parsed schema: the schema, its items, its properties
RECURSIVE SubNodes(_)
SubNodes(schema) ==
  {schema}
    \cup (IF IsDef(schema.items) THEN SubNodes(schema.items.v) ELSE {})
    \cup (IF IsDef(schema.properties)
          THEN UNION {SubNodes(schema.properties.v[i][2]) :
                        i \in DOMAIN schema.properties.v}
          ELSE {})
AllNodes ==
  SubNodes(parsedTypes.inline)
    \cup UNION {SubNodes(parsedTypes.schemas[i][2]) : i \in DOMAIN parsedTypes.schemas}

\* C7: a reference whose target is absent from the named-schema table
\* resolves to the universal 'any' type, as a media-type schema and as the
\* body of a named schema.
C7_AbsentTargetResolvesToAny ==
  Generated =>
    /\ (IsRef(parsedTypes.inline) /\ TargetOf(parsedTypes.inline) \notin DeclaredNames)
         => typeDefs.inline = "any"
    /\ \A i \in DOMAIN parsedTypes.schemas :
         LET e == parsedTypes.schemas[i]
         IN (IsRef(e[2]) /\ TargetOf(e[2]) \notin DeclaredNames)
              => typeDefs.interfaces[i] =
                   "export type " \o Text(toPascalCase(e[1])) \o " = any;"

\* C7 (amended): a reference whose target is absent from the named-schema
\* table resolves, like every other reference, to the bare canonicalized
\* target name (not to 'any'), as a media-type schema and as the body of a
\* named schema; the generator reaches its end.
C7_AbsentTargetResolvesToName ==
  Generated =>
    /\ (IsRef(parsedTypes.inline) /\ TargetOf(parsedTypes.inline) \notin DeclaredNames)
         => typeDefs.inline = Text(toPascalCase(TargetOf(parsedTypes.inline)))
    /\ \A i \in DOMAIN parsedTypes.schemas :
         LET e == parsedTypes.schemas[i]
         IN (IsRef(e[2]) /\ TargetOf(e[2]) \notin DeclaredNames)
              => typeDefs.interfaces[i] =
                   "export type " \o Text(toPascalCase(e[1])) \o " = "
                     \o Text(toPascalCase(TargetOf(e[2]))) \o ";"

\* the only named schema, A, and the media-type schema both refer to Missing
C7_Witness ==
  /\ Generated
  /\ rawTypes.schemas = << <<N_A, RefTo(N_Missing)>> >>
  /\ rawTypes.inline = RefTo(N_Missing)
  /\ typeDefs = [interfaces |-> <<"export type A = Missing;">>, inline |-> "Missing"]

\* C8: resolving a reference node never expands the referenced definition.
\* Every reference node, at any depth, resolves to the bare canonicalized
\* target name; a named schema whose body is solely a $ref is emitted as an
\* alias of the canonicalized target; and schemas that refer to themselves or
\* to each other are resolved (the generator reaches its end) with exactly
\* one interface per named schema.
C8_ReferenceIsNeverExpanded ==
  Generated =>
    /\ Len(typeDefs.interfaces) = Len(rawTypes.schemas)
    /\ IsRef(parsedTypes.inline)
         => typeDefs.inline = Text(toPascalCase(TargetOf(parsedTypes.inline)))
    /\ \A i \in DOMAIN parsedTypes.schemas :
         LET e == parsedTypes.schemas[i]
         IN IsRef(e[2]) =>
              typeDefs.interfaces[i] =
                "export type " \o Text(toPascalCase(e[1])) \o " = "
                  \o Text(toPascalCase(TargetOf(e[2]))) \o ";"
    /\ \A node \in AllNodes :
         IsRef(node) => generateTypeFromSchema(node) = Text(toPascalCase(TargetOf(node)))
    /\ \A i \in DOMAIN parsedTypes.schemas :
         LET e == parsedTypes.schemas[i]
         IN (/\ ~IsRef(e[2]) /\ e[2].type = "object" /\ IsDef(e[2].properties)
             /\ Len(e[2].properties.v) = 1 /\ IsRef(e[2].properties.v[1][2]))
            => typeDefs.interfaces[i] =
                 "export interface " \o Text(toPascalCase(e[1])) \o " {\n  "
                   \o Text(e[2].properties.v[1][1])
                   \o (IF isRequiredIn(e[2], e[2].properties.v[1][1]) THEN "" ELSE "?")
                   \o ": " \o Text(toPascalCase(TargetOf(e[2].properties.v[1][2])))
                   \o ";\n}"

\* A refers to B through a property and B refers back to A; a media-type
\* schema refers to A.
C8_Witness ==
  /\ Generated
  /\ rawTypes.schemas = << <<N_A, ObjectOf(<< <<N_id, RefTo(N_B)>> >>, Undefined)>>,
                           <<N_B, ObjectOf(<< <<N_name, RefTo(N_A)>> >>, Def(<<N_name>>))>> >>
  /\ rawTypes.inline = RefTo(N_A)
  /\ typeDefs.inline = "A"
  /\ typeDefs.interfaces = <<"export interface A {\n  id?: B;\n}",
                             "export interface B {\n  name: A;\n}">>


----------------------------------------------------------------------------
(* Claims about a whole document (checked under Spec) *)

AfterParse ==
  pc \in {"ensureDir", "typeGenerator", "apiGenerator", "dbGenerator", "config",
          "indexFiles", "done"}
AfterApiGenerator == pc \in {"dbGenerator", "config", "indexFiles", "done"}
AfterDbGenerator == pc \in {"config", "indexFiles", "done"}

FilesOfKind(kind) == {files[i] : i \in {j \in DOMAIN files : files[j].content.kind = kind}}
FileAt(path) == {files[i] : i \in {j \in DOMAIN files : files[j].path = path}}

\* the seed records the seed data holds for a storage-group key
SeedListFor(seed, key) ==
  IF IsDef(seed) /\ \E i \in DOMAIN seed.v : seed.v[i][1] = key
  THEN seed.v[CHOOSE i \in DOMAIN seed.v : seed.v[i][1] = key][2]
  ELSE <<>>

\* C3: the seed data handed to CodeGenerator.generate reaches
\* DbGenerator.generate unchanged, so the database file of every storage
\* group whose key has a non-empty seed list embeds those records.
C3_SeedDataReachesDbFiles ==
  AfterDbGenerator =>
    /\ IsDef(seedData) => dbGenSeed = seedData
    /\ \A i \in DOMAIN parsedSpec.endpoints :
         LET key == controllerKeyOf(parsedSpec.endpoints[i])
         IN \A f \in FileAt("db/" \o Text(key) \o "-db.ts") :
              f.content.seedRecords = SeedListFor(seedData, key)

\* the api file that holds the function generated for an endpoint
ApiFilesOf(ep) ==
  {f \in FilesOfKind("api") :
     \E k \in DOMAIN f.content.functions :
       /\ f.content.functions[k].method = Text(ep.method)
       /\ f.content.functions[k].path = Text(ep.path)}

HasNoTag(ep) == ~IsDef(ep.tags) \/ ep.tags.v = <<>> \/ ep.tags.v[1] = <<>>
CanonicalTagOf(ep) == IF HasNoTag(ep) THEN S_default ELSE toPascalCase(ep.tags.v[1])
LowerCasedTagOf(ep) == IF HasNoTag(ep) THEN S_default ELSE toLowerCase(ep.tags.v[1])

\* C15: canonicalization is applied wherever a name is emitted: the
\* interface of the named schema user-profile is UserProfile, and the
\* identifiers emitted for the storage group of an operation (the API class,
\* the database class the API file imports, the database class the database
\* file declares) are the canonicalized first tag followed by Api or
\* Database, so that the tags user-profile and user_profile emit the same
\* identifiers.
C15_CanonicalEverywhere ==
  AfterDbGenerator =>
    /\ (IsDef(api.schemas) /\ api.schemas.v = DocSchemas) =>
         \A f \in FilesOfKind("types") :
           f.content.interfaces = <<"export interface UserProfile {\n}">>
    /\ \A i \in DOMAIN parsedSpec.endpoints :
         LET ep == parsedSpec.endpoints[i]
             key == controllerKeyOf(ep)
             canonical == Text(CanonicalTagOf(ep))
         IN ~HasNoTag(ep) =>
            /\ \A f \in FileAt("api/" \o Text(key) \o "-api.ts") :
                 /\ f.content.className = canonical \o "Api"
                 /\ f.content.dbClassName = canonical \o "Database"
            /\ \A f \in FileAt("db/" \o Text(key) \o "-db.ts") :
                 f.content.className = canonical \o "Database"

DeclaredPairs ==
  UNION {{<<api.paths.v[i][1], api.paths.v[i][2][j][1]>> :
            j \in {k \in DOMAIN api.paths.v[i][2] :
                     api.paths.v[i][2][k][1] \in Range(methods)}} :
           i \in DOMAIN api.paths.v}
PairOf(ep) == <<ep.path, toLowerCase(ep.method)>>
PathIndex(ep) == CHOOSE i \in DOMAIN api.paths.v : api.paths.v[i][1] = ep.path
DeclaredVerbIndex(ep) ==
  LET pathItem == api.paths.v[PathIndex(ep)][2]
  IN CHOOSE j \in DOMAIN pathItem : pathItem[j][1] = toLowerCase(ep.method)
MethodsIndex(ep) == IndexOf(methods, toLowerCase(ep.method))

OneOperationPerDeclaredPair ==
  /\ {PairOf(parsedSpec.endpoints[i]) : i \in DOMAIN parsedSpec.endpoints} = DeclaredPairs
  /\ Len(parsedSpec.endpoints) = Cardinality(DeclaredPairs)

\* C5 as stated: parse produces exactly one operation per declared
\* (path, recognized verb) pair, ordered by path in document order and,
\* within a path, by the order in which the document declares the verbs.
C5_VerbsInDeclarationOrder ==
  AfterParse =>
    /\ OneOperationPerDeclaredPair
    /\ \A i, j \in DOMAIN parsedSpec.endpoints :
         LET a == parsedSpec.endpoints[i]
             b == parsedSpec.endpoints[j]
         IN i < j => \/ PathIndex(a) < PathIndex(b)
                     \/ /\ PathIndex(a) = PathIndex(b)
                        /\ DeclaredVerbIndex(a) < DeclaredVerbIndex(b)

\* C5 (amended): parse produces exactly one operation per declared
\* (path, recognized verb) pair and no other, ordered by path in document
\* order and, within a path, in the fixed order get, post, put, patch,
\* delete, options, head, whatever order the document declares the verbs in.
C5_VerbsInFixedOrder ==
  AfterParse =>
    /\ OneOperationPerDeclaredPair
    /\ \A i, j \in DOMAIN parsedSpec.endpoints :
         LET a == parsedSpec.endpoints[i]
             b == parsedSpec.endpoints[j]
         IN i < j => \/ PathIndex(a) < PathIndex(b)
                     \/ /\ PathIndex(a) = PathIndex(b)
                        /\ MethodsIndex(a) < MethodsIndex(b)

\* /pets declares post before get; the operations are GET, then POST
C5_Witness ==
  /\ AfterParse
  /\ Len(api.paths.v) = 1
  /\ api.paths.v[1][1] = P_pets
  /\ Len(api.paths.v[1][2]) = 2
  /\ api.paths.v[1][2][1][1] = S_post
  /\ api.paths.v[1][2][2][1] = S_get
  /\ Len(parsedSpec.endpoints) = 2
  /\ parsedSpec.endpoints[1].method = S_GET
  /\ parsedSpec.endpoints[2].method = toUpperCase(S_post)

----------------------------------------------------------------------------
(* The generated code at run time: db-setup.ts utilities and the database
   class emitted by DbGenerator (src/generator/type-generator.ts lines
   259-701), and the function body emitted by ApiGenerator.generateApiFunction
   (src/generator/api-generator.ts lines 134-184).  Dates are not modelled. *)

MaxRecords == 2

\* Keys of the object store.  generateId() yields a fresh random string; a
\* key is modelled by its rank in the key order of the store.
Ids == 1..MaxRecords
Categories == {"dog", "cat"}
Ages == {1, 2}
Data == [category : Categories, age : Ages]
\* a request body: the fields of a record, or those of Dog1 with an id of
\* its own
Payloads == Data \cup {[category |-> "dog", age |-> 1, id |-> i] : i \in Ids}
HasOwnId(data) == "id" \in DOMAIN data
FieldsOf(data) == [category |-> data.category, age |-> data.age]

\* store.getAll(): the records in ascending key order
RECURSIVE getAllFrom(_, _)
getAllFrom(st, i) ==
  IF i > MaxRecords THEN <<>>
  ELSE (IF i \in DOMAIN st
        THEN <<[id |-> i, category |-> st[i].category, age |-> st[i].age]>>
        ELSE <<>>) \o getAllFrom(st, i + 1)
getAll(st) == getAllFrom(st, 1)

\* record[key] === value for every entry of the filter whose value is
\* neither undefined nor null
queryByFilter(records, filter) ==
  LET Matches(r) ==
        /\ IsDef(filter.category) => r.category = filter.category.v
        /\ IsDef(filter.age) => r.age = filter.age.v
  IN SelectSeq(records, Matches)

\* [...records].sort(compare) on the field sortBy; Array.prototype.sort is
\* stable.  A field no record carries compares undefined with undefined and
\* leaves the order alone.
RECURSIVE InsertSorted(_, _, _)
InsertSorted(sorted, r, desc) ==
  IF sorted = <<>> THEN <<r>>
  ELSE LET last == sorted[Len(sorted)]
           rBeforeLast == IF desc THEN r.age > last.age ELSE r.age < last.age
       IN IF rBeforeLast
          THEN Append(InsertSorted(SubSeq(sorted, 1, Len(sorted) - 1), r, desc), last)
          ELSE Append(sorted, r)
RECURSIVE SortFrom(_, _, _)
SortFrom(records, n, desc) ==
  IF n = 0 THEN <<>>
  ELSE InsertSorted(SortFrom(records, n - 1, desc), records[n], desc)
sortRecords(records, sortBy, sortOrder) ==
  LET order == IF IsDef(sortOrder) THEN sortOrder.v ELSE "asc"
  IN IF sortBy = "age" THEN SortFrom(records, Len(records), order # "asc")
     ELSE records

\* records.slice(startIndex, endIndex) with page = 1 and pageSize = 10 by default
DefaultPage == 1
DefaultPageSize == 10
paginateRecords(records, page, pageSize) ==
  LET p == IF IsDef(page) THEN page.v ELSE DefaultPage
      size == IF IsDef(pageSize) THEN pageSize.v ELSE DefaultPageSize
      startIndex == (p - 1) * size
      endIndex == startIndex + size
      last == IF endIndex < Len(records) THEN endIndex ELSE Len(records)
  IN SubSeq(records, startIndex + 1, last)

Resolved(st, value) == [store |-> st, settled |-> "resolved", value |-> value]
Rejected(st, status) == [store |-> st, settled |-> "rejected", status |-> status]
NotFound == Def(404)

\* findAll(params): filtering only under params.filter, sorting only under
\* params.sortBy, pagination only under params.page or params.pageSize
findAll(st, params) ==
  LET all == getAll(st)
      filtered == IF IsDef(params) /\ IsDef(params.v.filter)
                  THEN queryByFilter(all, params.v.filter.v) ELSE all
      sorted == IF IsDef(params) /\ IsDef(params.v.sortBy)
                THEN sortRecords(filtered, params.v.sortBy.v, params.v.sortOrder)
                ELSE filtered
  IN IF IsDef(params) /\ (IsDef(params.v.page) \/ IsDef(params.v.pageSize))
     THEN Resolved(st, paginateRecords(sorted, params.v.page, params.v.pageSize))
     ELSE Resolved(st, sorted)

\* findById(id): rejects with an Error carrying status 404 when store.get(id)
\* finds nothing
findById(st, id) ==
  IF id \in DOMAIN st
  THEN Resolved(st, <<[id |-> id, category |-> st[id].category, age |-> st[id].age]>>)
  ELSE Rejected(st, NotFound)

\* the store with key id bound to data
Put(st, id, data) == [i \in DOMAIN st \cup {id} |-> IF i = id THEN data ELSE st[i]]
Without(st, id) == [i \in DOMAIN st \ {id} |-> st[i]]

\* createDbRecord(data) = { id: generateId(), createdAt, updatedAt, ...data }:
\* the key is newId unless data carries an id
createDbRecord(data, newId) ==
  [id |-> IF HasOwnId(data) THEN data.id ELSE newId,
   category |-> data.category, age |-> data.age]
\* create(data): store.add(createDbRecord(data)); add fails on a key the
\* store holds and create rejects with an Error without a status
create(st, data, newId) ==
  LET record == createDbRecord(data, newId)
  IN IF record.id \in DOMAIN st THEN Rejected(st, Undefined)
     ELSE Resolved(Put(st, record.id, FieldsOf(record)), <<record>>)

\* updateDbRecord(record, updates) = { ...record, ...updates, updatedAt }
updateDbRecord(record, updates) ==
  [id |-> IF HasOwnId(updates) THEN updates.id ELSE record.id,
   category |-> updates.category, age |-> updates.age]
\* an update that puts the record back under the id it was read from
update_KeepsId(st, id, updates) ==
  IF findById(st, id).settled = "rejected" THEN findById(st, id)
  ELSE Resolved(Put(st, id, FieldsOf(updates)),
                <<[id |-> id, category |-> updates.category, age |-> updates.age]>>)
\* update(id, updates): findById first (its rejection propagates), then
\* store.put(updateDbRecord(existingRecord, updates)); the store's keyPath
\* is 'id', so put stores the record under the id it carries
update(st, id, updates) ==
  IF findById(st, id).settled = "rejected" THEN findById(st, id)
  ELSE LET updatedRecord == updateDbRecord(findById(st, id).value[1], updates)
       IN Resolved(Put(st, updatedRecord.id, FieldsOf(updatedRecord)), <<updatedRecord>>)

\* delete(id): findById first (its rejection propagates), then store.delete(id)
delete(st, id) ==
  IF findById(st, id).settled = "rejected" THEN findById(st, id)
  ELSE Resolved(Without(st, id), <<>>)

\* importAll(data): store.clear(), then store.add(record) for every record,
\* in one transaction; keys[i] is the fresh key of data[i]
importAll(st, data, keys) ==
  [i \in {keys[k] : k \in DOMAIN data} |->
     data[CHOOSE k \in DOMAIN data : keys[k] = i]]

\* The argument the emitted call `this.db.<name>(<dbFunctionParams>)` passes
\* for each name: params, body, or the value of a path parameter
ArgValues(names, id, params, body) ==
  [k \in DOMAIN names |->
     IF names[k] = "params" THEN [kind |-> "params", v |-> params]
     ELSE IF names[k] = "body" THEN [kind |-> "body", v |-> Def(body)]
     ELSE [kind |-> "id", v |-> Def(id)]]
HasArg(args, n, kind) == Len(args) >= n /\ args[n].kind = kind

\* this.db.<dbFunctionName>(...args) for the operations of RunDocument: a
\* list without params, or with a first argument carrying no filter, sortBy,
\* page or pageSize, returns every record
CallDb(st, dbFunctionName, args, newId) ==
  CASE dbFunctionName = "findAll" ->
         findAll(st, IF HasArg(args, 1, "params") THEN args[1].v ELSE Undefined)
    [] dbFunctionName = "findById" /\ HasArg(args, 1, "id") ->
         findById(st, args[1].v.v)
    [] dbFunctionName = "create" /\ HasArg(args, 1, "body") ->
         create(st, args[1].v.v, newId)
    [] dbFunctionName = "update" /\ HasArg(args, 1, "id") /\ HasArg(args, 2, "body") ->
         update(st, args[1].v.v, args[2].v.v)
    [] dbFunctionName = "delete" /\ HasArg(args, 1, "id") ->
         delete(st, args[1].v.v)
    [] OTHER -> Rejected(st, Undefined)

\* The body generateApiFunction emits: the database call inside try; on
\* success { data, status, statusText }, on failure throw the ApiError
\* { message, status: <getErrorStatusCode>, details: error }
CallFunction(fn, st, id, params, body, newId) ==
  LET db == CallDb(st, fn.dbFunctionName, ArgValues(fn.dbFunctionParams, id, params, body), newId)
  IN IF db.settled = "resolved"
     THEN [store |-> db.store,
           result |-> [fn |-> fn.functionName, id |-> id, params |-> params,
                       settled |-> "returned", data |-> db.value,
                       status |-> fn.successStatus, statusText |-> fn.statusText]]
     ELSE [store |-> db.store,
           result |-> [fn |-> fn.functionName, id |-> id, params |-> params,
                       settled |-> "thrown", status |-> fn.errorStatus,
                       details |-> [status |-> db.status]]]

----------------------------------------------------------------------------
(* SpecRun: one storage group, pets, generated and then used *)

S_pets == <<"p","e","t","s">>
S_other == <<"o","t","h","e","r">>
Param_category == [name |-> <<"c","a","t","e","g","o","r","y">>, in |-> "query",
                   required |-> Undefined, schema |-> Def(StringSchema)]
RunOperation(operationId, parameters, requestBody, responses) ==
  [operationId |-> Def(operationId), tags |-> Def(<<S_pets>>),
   parameters |-> parameters, requestBody |-> requestBody, responses |-> responses]
RunDocument(responses) ==
  [paths |-> Def(<<
     <<P_pets,
       << <<S_get, RunOperation(<<"l","i","s","t","P","e","t","s">>,
                                Def(<<Param_limit, Param_category>>), Undefined, responses)>>,
          <<S_post, RunOperation(<<"c","r","e","a","t","e","P","e","t">>,
                                 Undefined, Def(RawRequestBody), responses)>> >> >>,
     <<P_petsId,
       << <<S_get, RunOperation(<<"g","e","t","P","e","t","B","y","I","d">>,
                                Def(<<Param_id>>), Undefined, responses)>>,
          <<S_put, RunOperation(<<"u","p","d","a","t","e","P","e","t">>,
                                Def(<<Param_id>>), Def(RawRequestBody), responses)>>,
          <<S_delete, RunOperation(<<"d","e","l","e","t","e","P","e","t">>,
                                   Def(<<Param_id>>), Undefined, responses)>> >> >> >>),
   schemas |-> Undefined]

Code(digits) == <<digits, RawResponse>>
RunResponses ==
  {Undefined,
   Def(<<Code(<<"2","0","0">>)>>),
   Def(<<Code(<<"2","0","0">>), Code(<<"4","0","4">>)>>),
   Def(<<Code(<<"4","0","4">>), Code(<<"4","0","0">>)>>)}

Dog1 == [category |-> "dog", age |-> 1]
Cat2 == [category |-> "cat", age |-> 2]
RunSeeds ==
  {Undefined, Null,
   Def(<< <<S_other, <<Dog1>> >> >>),
   Def(<< <<S_pets, <<>> >> >>),
   Def(<< <<S_pets, <<Dog1>> >> >>),
   Def(<< <<S_other, <<Dog1>> >>, <<S_pets, <<Cat2, Dog1>> >> >>)}

NoParams ==
  [category |-> Undefined, limit |-> Undefined, filter |-> Undefined,
   sortBy |-> Undefined, sortOrder |-> Undefined, page |-> Undefined,
   pageSize |-> Undefined]
NoFilter == [category |-> Undefined, age |-> Undefined]
ParamValues ==
  {Undefined,
   Def([NoParams EXCEPT !.limit = Def(1), !.category = Def("dog")]),
   Def([NoParams EXCEPT !.filter = Def([NoFilter EXCEPT !.category = Def("dog")])]),
   Def([NoParams EXCEPT !.sortBy = Def("age"), !.sortOrder = Def("desc")]),
   Def([NoParams EXCEPT !.sortBy = Def("age")]),
   Def([NoParams EXCEPT !.page = Def(2), !.pageSize = Def(1)]),
   Def([NoParams EXCEPT !.pageSize = Def(1)])}

EmptyStore == [i \in {} |-> Dog1]

\* a run varies the responses the operations declare or the seed data
RunInputs ==
  {g \in [responses : RunResponses, seed : RunSeeds] :
     IsDef(g.responses) => g.seed = Undefined}

InitRun ==
  /\ runPc = "generate"
  /\ genInput \in RunInputs
  /\ gen = Undefined
  /\ store = EmptyStore
  /\ seedCall = [pc |-> "idle", before |-> EmptyStore]
  /\ result = Undefined
  /\ OpIdle /\ CmdIdle /\ TyIdle /\ DbIdle /\ NameIdle

\* ApiGenerator.generate and DbGenerator.generate(parsedSwagger, dbDir, seed)
\* for the parsed document
GenerateArtifacts ==
  /\ runPc = "generate"
  /\ LET parsedSwagger == parse(RunDocument(genInput.responses))
     IN gen' = [api |-> apiGenerate(parsedSwagger),
                db |-> dbGenerate(parsedSwagger, genInput.seed)]
  /\ runPc' = "run"
  /\ UNCHANGED <<genInput, store, seedCall, result, opVars, cmdVars, tyVars, dbVars, nameVars>>

GeneratedFunctions == gen.api[1].content.functions
GeneratedSeedRecords == gen.db[2].content.seedRecords

\* a call of one generated API function with values for the arguments it
\* declares (Ids[1], no params and Dog1 stand for an argument it does not
\* declare); a create takes a fresh key
CallApiFunction ==
  /\ runPc = "run"
  /\ \E f \in DOMAIN GeneratedFunctions :
       LET fn == GeneratedFunctions[f]
           names == Range(fn.dbFunctionParams)
           free == Ids \ DOMAIN store
       IN /\ fn.dbFunctionName = "create" => free # {}
          /\ \E id \in (IF names \ {"params", "body"} # {} THEN Ids ELSE {1}),
                params \in (IF "params" \in names THEN ParamValues ELSE {Undefined}),
                body \in (IF "body" \in names THEN Payloads ELSE {Dog1}),
                newId \in (IF fn.dbFunctionName = "create" THEN free ELSE {1}) :
               LET call == CallFunction(fn, store, id, params, body, newId)
               IN /\ store' = call.store
                  /\ result' = call.result
  /\ UNCHANGED <<runPc, genInput, gen, seedCall, opVars, cmdVars, tyVars, dbVars, nameVars>>

\* seedData() without the check for existing records
SeedDataCheck_NoExistingCheck ==
  /\ runPc = "run"
  /\ seedCall.pc = "idle"
  /\ IF GeneratedSeedRecords = <<>>
     THEN /\ UNCHANGED seedCall
          /\ result' = [fn |-> "seedData", settled |-> "returned", seeded |-> "no seed data"]
     ELSE /\ seedCall' = [pc |-> "import", before |-> store]
          /\ UNCHANGED result
  /\ UNCHANGED <<runPc, genInput, gen, store, opVars, cmdVars, tyVars, dbVars, nameVars>>

\* seedData() up to its first write: without embedded records it only logs;
\* otherwise `existingRecords = await this.findAll()` and, when the store
\* holds a record, it logs and returns
SeedDataCheck ==
  /\ runPc = "run"
  /\ seedCall.pc = "idle"
  /\ IF GeneratedSeedRecords = <<>>
     THEN /\ UNCHANGED seedCall
          /\ result' = [fn |-> "seedData", settled |-> "returned", seeded |-> "no seed data"]
     ELSE IF getAll(store) # <<>>
     THEN /\ UNCHANGED seedCall
          /\ result' = [fn |-> "seedData", settled |-> "returned", seeded |-> "skipped"]
     ELSE /\ seedCall' = [pc |-> "import", before |-> store]
          /\ UNCHANGED result
  /\ UNCHANGED <<runPc, genInput, gen, store, opVars, cmdVars, tyVars, dbVars, nameVars>>

\* seedData() after the check found the store empty:
\* await this.importAll(seedRecords.map(item => createDbRecord(item)))
SeedDataImport ==
  /\ runPc = "run"
  /\ seedCall.pc = "import"
  /\ \E keys \in [DOMAIN GeneratedSeedRecords -> Ids] :
       /\ \A i, j \in DOMAIN keys : keys[i] = keys[j] => i = j
       /\ store' = importAll(store, GeneratedSeedRecords, keys)
  /\ seedCall' = [pc |-> "idle", before |-> EmptyStore]
  /\ result' = [fn |-> "seedData", settled |-> "returned", seeded |-> "seeded"]
  /\ UNCHANGED <<runPc, genInput, gen, opVars, cmdVars, tyVars, dbVars, nameVars>>

NextRun ==
  \/ GenerateArtifacts
  \/ CallApiFunction
  \/ SeedDataCheck
  \/ SeedDataImport
SpecRun == InitRun /\ [][NextRun]_vars

----------------------------------------------------------------------------
(* Claims about the generated code at run time (checked under SpecRun) *)

LastCallWas(functionName) == result # Undefined /\ result.fn = functionName

\* C12: calling the generated getById function with an id that is not in the
\* store throws an error whose status is 404.
C12_GetByIdMissThrows404 ==
  (LastCallWas("getPetById") /\ result.id \notin DOMAIN store)
    => (result.settled = "thrown" /\ result.status = 404)

\* the records of st are all in st2, unchanged
Preserves(st, st2) == \A i \in DOMAIN st : i \in DOMAIN st2 /\ st2[i] = st[i]

\* C13: seedData() populates the store only when it is empty: its check
\* writes nothing, a check that finds a record ends the call (seeding is
\* skipped), and the import keeps every record the store held when the call
\* read it, so that no record that existed before seedData ran is removed or
\* replaced, whatever calls came before.
C13_SeedDataPreservesExisting ==
  [][ /\ SeedDataCheck =>
           /\ store' = store
           /\ store # EmptyStore => seedCall'.pc = "idle"
      /\ SeedDataImport =>
           /\ seedCall.before = EmptyStore
           /\ Preserves(seedCall.before, store') ]_vars

\* records were created, then seedData() was called and skipped the seeding
\* although the database file embeds seed records
C13_Witness ==
  /\ LastCallWas("seedData")
  /\ result.seeded = "skipped"
  /\ GeneratedSeedRecords # <<>>
  /\ store # EmptyStore

\* C14: a generated list function called with query parameters returns only
\* records matching the given field values (category), in the order asked
\* for by sortBy/sortOrder, and no more than pageSize of them.
C14_ListAppliesQueryParams ==
  (LastCallWas("listPets") /\ IsDef(result.params)) =>
    LET params == result.params.v
        data == result.data
    IN /\ result.settled = "returned"
       /\ IsDef(params.category) =>
            \A k \in DOMAIN data : data[k].category = params.category.v
       /\ IsDef(params.sortBy) =>
            \A j, k \in DOMAIN data :
              j < k => IF IsDef(params.sortOrder) /\ params.sortOrder.v = "desc"
                       THEN data[j].age >= data[k].age
                       ELSE data[j].age <= data[k].age
       /\ IsDef(params.pageSize) => Len(data) <= params.pageSize.v

----------------------------------------------------------------------------
(* Claims about the generate command and its failures (checked under Spec) *)

ValidationRejected == "t" \in DOMAIN api /\ api.t = "rejected"
ErrorLines == SelectSeq(console, LAMBDA line : line.level = "error")
WarnLines == SelectSeq(console, LAMBDA line : line.level = "warn")

\* C16: when SwaggerParser.validate rejects, parse rejects with the one
\* error 'Failed to parse Swagger specification: <validation message>' and
\* returns no ParsedSwagger; generateCommand does not invoke the code
\* generator (nothing is written), the spinner fails with 'Generation
\* failed', success is not reported, and the exit code is 1.
C16_ValidationFailureAborts ==
  ValidationRejected =>
    /\ thrown = Def(ParseError(api.message))
    /\ ErrorLines = <<[level |-> "error", text |-> ParseError(api.message)]>>
    /\ parsedSpec = Undefined
    /\ "generator.generate" \notin Range(calls)
    /\ files = <<>>
    /\ outcome = Fail("Generation failed")
    /\ outcome.exitCode = 1
    /\ pc = "exited"
C16_Witness ==
  /\ ValidationRejected
  /\ calls[Len(calls)] = "parser.parse"
  /\ pc = "exited"
  /\ thrown = Def("Failed to parse Swagger specification: Invalid swagger specification")

IsPrefixOf(s, t) == Len(s) <= Len(t) /\ SubSeq(t, 1, Len(s)) = s
StepsRun == SelectSeq(calls, LAMBDA c : c \in Range(GeneratorSteps))
StepIndex(step) == CHOOSE i \in DOMAIN GeneratorSteps : GeneratorSteps[i] = step
StepOfKind(kind) ==
  CASE kind = "types" -> "typeGenerator"
    [] kind = "api" -> "apiGenerator"
    [] kind \in {"db-setup", "db"} -> "dbGenerator"
    [] kind = "config" -> "config"
    [] kind = "index" -> "indexFiles"
StepOfFile(i) == StepOfKind(files[i].content.kind)
GeneratorThrew == IsDef(thrown) /\ ~ValidationRejected

\* C17: the steps of CodeGenerator.generate run in the order ensure
\* directories, type generator, API generator, DB generator, config file,
\* index files, and the files are written in that order, the four index
\* files last; an error thrown by a step reaches generateCommand's catch,
\* no later step runs and no file of a later step is written.
C17_StepsInOrderAndErrorsPropagate ==
  /\ IsPrefixOf(StepsRun, GeneratorSteps)
  /\ \A i \in DOMAIN files : StepOfFile(i) \in Range(StepsRun)
  /\ \A i, j \in DOMAIN files :
       i < j => StepIndex(StepOfFile(i)) <= StepIndex(StepOfFile(j))
  /\ pc = "done" =>
       /\ StepsRun = GeneratorSteps
       /\ Len(files) >= 4
       /\ \A i \in DOMAIN files : (StepOfFile(i) = "indexFiles") <=> (i > Len(files) - 4)
  /\ GeneratorThrew =>
       /\ pc = "exited"
       /\ outcome = Fail("Generation failed")
       /\ \A i \in DOMAIN files :
            StepIndex(StepOfFile(i)) <= StepIndex(calls[Len(calls)])
C17_Witness ==
  /\ GeneratorThrew
  /\ calls[Len(calls)] = "dbGenerator"
  /\ FilesOfKind("api") # {}
  /\ FilesOfKind("db-setup") # {}
  /\ FilesOfKind("config") = {}
  /\ pc = "exited"

----------------------------------------------------------------------------
(* Claims about seeding of a storage group (checked under SpecRun) *)

\* the seed has no entry for the storage group pets, or an empty one, or
\* there is no seed at all
NoSeedFor(seed) ==
  \/ ~IsDef(seed)
  \/ ~IsDef(Lookup(seed.v, S_pets))
  \/ Lookup(seed.v, S_pets).v = <<>>
DbFilesWithoutSeed == dbGenerate(parse(RunDocument(genInput.responses)), Undefined)

\* C18: a storage group without a matching seed entry, one whose entry is
\* the empty list, and a run without seed data all get the same generated
\* database file, and the seedData() of that file inserts nothing.
C18_MissingSeedIsEmptySeed ==
  /\ []((runPc = "run" /\ NoSeedFor(genInput.seed)) =>
          /\ gen.db = DbFilesWithoutSeed
          /\ seedCall.pc = "idle")
  /\ [][(NoSeedFor(genInput.seed) /\ (SeedDataCheck \/ SeedDataImport)) =>
          /\ store' = store
          /\ result'.seeded = "no seed data"]_vars
C18_Witness ==
  /\ runPc = "run"
  /\ genInput.seed = Def(<< <<S_other, <<Dog1>> >> >>)
  /\ gen.db = DbFilesWithoutSeed
  /\ LastCallWas("seedData")
  /\ store # EmptyStore

----------------------------------------------------------------------------
(* Claims about loadSeedData and the input check (checked under Spec) *)

SeedLoaded == "loadSeedData" \in Range(calls)
IsJsonObject(seed) ==
  IsDef(seed) /\ seed.v.exists /\ seed.v.readable /\ seed.v.json.k = "object"
\* the seed file is missing, unreadable, or holds JSON that is not an object
IsUnusable(seed) == IsDef(seed) /\ ~IsJsonObject(seed)
SkippedWarning(key) ==
  [level |-> "warn",
   text |-> "Warning: Seed data for '" \o Text(key) \o "' is not an array, skipping"]
OnlyArraysPass(seed) ==
  LET declared == seed.v.json.entries
  IN /\ IsDef(seedData)
     /\ \A e \in Range(seedData.v) :
          \E d \in Range(declared) : d[1] = e[1] /\ d[2].isArray /\ d[2].items = e[2]
     /\ \A d \in Range(declared) :
          IF d[2].isArray
          THEN <<d[1], d[2].items>> \in Range(seedData.v)
          ELSE /\ IsDef(Lookup(seedData.v, d[1])) = FALSE
               /\ SkippedWarning(d[1]) \in Range(console)
NullWithWarning == seedData = Null /\ WarnLines # <<>>
NotFailedBySeed ==
  calls[Len(calls)] = "loadSeedData" =>
    pc = "parse" /\ outcome = Undefined /\ thrown = Undefined

\* C19: loadSeedData returns only the entries of the seed object whose
\* value is an array, warning about every other entry; for a seed file that
\* is missing, unreadable or not a JSON object it warns and returns null;
\* in neither case does the run fail: the command goes on to parse.
C19_OnlyArraysElseNullWithWarning ==
  SeedLoaded =>
    /\ IsJsonObject(seedFile) => OnlyArraysPass(seedFile)
    /\ IsUnusable(seedFile) => NullWithWarning
    /\ NotFailedBySeed
\* the same with a JSON array counted among the usable seed files
C19_ExceptJsonArrays ==
  SeedLoaded =>
    /\ IsJsonObject(seedFile) => OnlyArraysPass(seedFile)
    /\ (IsUnusable(seedFile) /\ ~(seedFile.v.readable /\ seedFile.v.exists
                                   /\ seedFile.v.json.k = "array"))
         => NullWithWarning
    /\ NotFailedBySeed

\* C20: when the input file does not exist, generateCommand fails the
\* spinner with 'Input file not found: <input>' and exits with code 1; it
\* calls neither loadConfig nor loadSeedData nor the parser nor the code
\* generator, writes nothing, and never reports success.
C20_MissingInputExitsAtOnce ==
  (~inputExists /\ pc # "start") =>
    /\ pc = "exited"
    /\ outcome = [spinner |-> "fail",
                  text |-> "Input file not found: swagger.json",
                  exitCode |-> 1]
    /\ calls = <<>>
    /\ seedData = Undefined
    /\ parsedSpec = Undefined
    /\ files = <<>>
    /\ console = <<>>
C20_Witness ==
  /\ ~inputExists
  /\ pc = "exited"
  /\ outcome.exitCode = 1
  /\ IsDef(seedFile)

----------------------------------------------------------------------------
(* Claims about the emitted api and index files (checked under Spec) *)

\* the operations of the storage group an api file is written for, in
\* operation order
GroupOfFile(f) ==
  SelectSeq(parsedSpec.endpoints,
            LAMBDA ep : Text(LowerCasedTagOf(ep)) = f.content.controller)
HasCollision(f) == ~ExportsDeclaredOnce(f.content)
\* one function entry and one exported binding per operation of the group,
\* in operation order
OneEntryPerOperation(f) ==
  LET group == GroupOfFile(f)
  IN /\ Len(f.content.functions) = Len(group)
     /\ Len(f.content.exports) = Len(group)
     /\ \A k \in DOMAIN group :
          /\ f.content.functions[k].method = Text(group[k].method)
          /\ f.content.functions[k].path = Text(group[k].path)
          /\ f.content.functions[k].functionName = Text(generateFunctionName(group[k]))
          /\ f.content.exports[k] = f.content.functions[k].functionName

----------------------------------------------------------------------------
(* Claims about the resolved shape of schemas (checked under SpecType) *)

\* every node of a declared schema: the schema, its items, its properties
RECURSIVE RawSubNodes(_)
RawSubNodes(raw) ==
  {raw}
    \cup (IF IsDef(raw.items) THEN RawSubNodes(raw.items.v) ELSE {})
    \cup (IF IsDef(raw.properties)
          THEN UNION {RawSubNodes(raw.properties.v[i][2]) : i \in DOMAIN raw.properties.v}
          ELSE {})
RawNodes ==
  RawSubNodes(rawTypes.inline)
    \cup UNION {RawSubNodes(rawTypes.schemas[i][2]) : i \in DOMAIN rawTypes.schemas}
\* the type a declared schema node resolves to
TypeOf(raw) == generateTypeFromSchema(parseSchema(Def(raw)))

IsObjectNode(raw) ==
  /\ ~IsDef(raw.ref) /\ ~IsDef(raw.enum)
  /\ raw.type = Def("object") /\ IsDef(raw.properties)
\* a property of an object node: optional exactly when its name is not in
\* the node's own required list
MemberOf(raw, e) ==
  Text(e[1])
    \o (IF IsDef(raw.required) /\ e[1] \in Range(raw.required.v) THEN "" ELSE "?")
    \o ": " \o TypeOf(e[2])
LiteralOf(raw, properties) ==
  "{ " \o Join(Map(LAMBDA e : MemberOf(raw, e), properties), "; ") \o " }"
InterfaceOf(name, raw, properties) ==
  "export interface " \o Text(toPascalCase(name)) \o " {\n"
    \o Join(Map(LAMBDA e : "  " \o MemberOf(raw, e) \o ";\n", properties), "")
    \o "}"

IsArrayNode(raw) == ~IsDef(raw.ref) /\ raw.type = Def("array") /\ ~IsDef(raw.enum)
\* the node resolves to a union type 'a' | 'b' | ...
ResolvesToUnion(raw) ==
  /\ ~IsDef(raw.ref)
  /\ ~(raw.type = Def("array") /\ IsDef(raw.items))
  /\ IsDef(raw.enum) /\ Len(raw.enum.v) > 1
\* the TypeScript type "sequence of T" for the type T an element resolves
\* to: T[] binds tighter than |, so a union element type takes parentheses
SequenceOf(element) ==
  IF ResolvesToUnion(element)
  THEN "(" \o TypeOf(element) \o ")[]"
  ELSE TypeOf(element) \o "[]"
ArrayTypeOf(raw) == IF IsDef(raw.items) THEN SequenceOf(raw.items.v) ELSE "any[]"
ArraysResolve(IsCovered(_)) ==
  Generated =>
    /\ \A node \in RawNodes :
         (IsArrayNode(node) /\ IsCovered(node)) => TypeOf(node) = ArrayTypeOf(node)
    /\ \A i \in DOMAIN rawTypes.schemas :
         LET e == rawTypes.schemas[i]
         IN (IsArrayNode(e[2]) /\ IsCovered(e[2])) =>
              typeDefs.interfaces[i] =
                "export type " \o Text(toPascalCase(e[1])) \o " = "
                  \o ArrayTypeOf(e[2]) \o ";"
    /\ typeDefs.inline = TypeOf(rawTypes.inline)

\* C23: an array schema, named or inline and at any depth, resolves to the
\* type "sequence of the type its items resolve to", and to any[] when it
\* declares no items.
C23_ArrayIsSequenceOfElementType == ArraysResolve(LAMBDA node : TRUE)
\* the same for the arrays whose items do not resolve to a union
C23_ExceptUnionElements ==
  ArraysResolve(LAMBDA node : ~(IsDef(node.items) /\ ResolvesToUnion(node.items.v)))

IsEnumNode(raw) ==
  /\ ~IsDef(raw.ref)
  /\ ~(raw.type = Def("array") /\ IsDef(raw.items))
  /\ IsDef(raw.enum) /\ raw.enum.v # <<>>
\* the literal of a declared enum value: a string in quotes, a number bare
LiteralOfValue(value) ==
  CASE value.k = "string" -> "'" \o Text(value.v) \o "'"
    [] value.k = "number" -> ToString(value.v)
\* the union of the literals of the values, one per value, in the order given
RECURSIVE UnionOf(_)
UnionOf(values) ==
  IF Len(values) = 1 THEN LiteralOfValue(values[1])
  ELSE UnionOf(SubSeq(values, 1, Len(values) - 1))
         \o " | " \o LiteralOfValue(values[Len(values)])

\* C24: an enum schema, named or inline, resolves to the union of exactly
\* its values in declaration order, one literal per declared value (none
\* dropped, merged or reordered), a string value in quotes and a number
\* value bare.
C24_EnumIsUnionInDeclaredOrder ==
  Generated =>
    /\ \A node \in RawNodes : IsEnumNode(node) => TypeOf(node) = UnionOf(node.enum.v)
    /\ \A i \in DOMAIN rawTypes.schemas :
         LET e == rawTypes.schemas[i]
         IN IsEnumNode(e[2]) =>
              typeDefs.interfaces[i] =
                "export type " \o Text(toPascalCase(e[1])) \o " = "
                  \o UnionOf(e[2].enum.v) \o ";"
    /\ IsEnumNode(rawTypes.inline) => typeDefs.inline = UnionOf(rawTypes.inline.enum.v)
C24_Witness ==
  /\ Generated
  /\ rawTypes.schemas = << <<N_A, EnumSchema>> >>
  /\ rawTypes.inline = MixedEnum
  /\ typeDefs.interfaces = <<"export type A = 'on' | 'off';">>
  /\ typeDefs.inline = "2 | 'on' | 1 | 'on'"

(***************************************************************************)
(* Claims about loadConfig (Spec)                                          *)
(***************************************************************************)
ConfigLoaded == "loadConfig" \in Range(calls)
OptionsAbsent ==
  /\ options.dbName = Undefined /\ options.delay = Undefined
  /\ options.verbose = Undefined /\ options.validation = Undefined
DefaultsWhenAbsent ==
  [dbName |-> "mockApiDB", responseDelay |-> 200, enableLogging |-> FALSE,
   enableValidation |-> TRUE, outputFormat |-> "typescript", errorRate |-> 0,
   generateTests |-> FALSE]
ConfigFileUnreadable == IsDef(options.config) /\ ~options.config.v.readable
ConfigFileValues ==
  IF IsDef(options.config) /\ options.config.v.readable THEN options.config.v.json
  ELSE EmptyJson
CouldNotLoadConfig ==
  [level |-> "warn",
   text |-> "Warning: Could not load config file ./config.json, using defaults"]
ConfigWarnings == SelectSeq(console, LAMBDA line : line = CouldNotLoadConfig)
NotFailedByConfig ==
  calls[Len(calls)] = "loadConfig" =>
    pc = "loadSeedData" /\ outcome = Undefined /\ thrown = Undefined

\* C25: the Config loadConfig returns holds, for every key, the value the
\* config file gives it and otherwise the default derived from the command
\* line (mockApiDB, 200, false, true, typescript, 0, false when no option is
\* given); a config file that cannot be read leaves the defaults as they are,
\* one warning is printed, and the command goes on to load the seed data.
C25_ConfigIsDefaultsOverriddenByFile ==
  ConfigLoaded =>
    /\ DOMAIN config = DOMAIN DefaultsWhenAbsent \cup DOMAIN ConfigFileValues
    /\ \A key \in DOMAIN config :
         config[key] = IF key \in DOMAIN ConfigFileValues THEN ConfigFileValues[key]
                       ELSE defaultConfigOf(options)[key]
    /\ OptionsAbsent => defaultConfigOf(options) = DefaultsWhenAbsent
    /\ ConfigFileUnreadable =>
         /\ config = defaultConfigOf(options)
         /\ ConfigWarnings = <<CouldNotLoadConfig>>
    /\ ~ConfigFileUnreadable => ConfigWarnings = <<>>
    /\ NotFailedByConfig
C25_Witness ==
  /\ pc = "done"
  /\ options.dbName = Def("petsDB")
  /\ IsDef(options.config) /\ options.config.v.readable
  /\ config.dbName = "fileDB" /\ config.errorRate = 1 /\ config.responseDelay = 200
C25_UnreadableWitness ==
  /\ pc = "done" /\ ConfigFileUnreadable /\ OptionsAbsent
  /\ config = DefaultsWhenAbsent

(***************************************************************************)
(* Claims about the arguments of the database call (SpecOp)                *)
(***************************************************************************)
\* what each argument of the emitted call this.db.<name>(<args>) carries
ArgKind(name) ==
  CASE name = "params" -> "params"
    [] name = "body" -> "body"
    [] OTHER -> "id"
ArgKindsOf(fn) == [k \in DOMAIN fn.dbFunctionParams |-> ArgKind(fn.dbFunctionParams[k])]
\* findAll(params?), findById(id), create(data), update(id, updates), delete(id)
DbSignatures(dbFunctionName) ==
  CASE dbFunctionName = "findAll" -> {<<>>, <<"params">>}
    [] dbFunctionName \in {"findById", "delete"} -> {<<"id">>}
    [] dbFunctionName = "create" -> {<<"body">>}
    [] dbFunctionName = "update" -> {<<"id", "body">>}
    [] OTHER -> {}
IsCrud(dbFunctionName) ==
  dbFunctionName \in {"findAll", "findById", "create", "update", "delete"}

\* C26: for every operation classified as one of the five database
\* operations, the arguments of the emitted database call are that
\* operation's parameters: the id for findById and delete, the body for
\* create, the id then the body for update, nothing or params for findAll,
\* whatever path parameters, query parameters and body the operation declares.
C26_DbArgumentsMatchSignature ==
  (Classified /\ IsCrud(route.fn.dbFunctionName)) =>
    ArgKindsOf(route.fn) \in DbSignatures(route.fn.dbFunctionName)

\* a POST with a body that declares one query parameter: create(params, body)
C26_CreateGetsParams ==
  /\ Classified
  /\ rawOp.method = S_post
  /\ rawOp.operation.parameters = Def(<<Param_q>>)
  /\ IsDef(rawOp.operation.requestBody)
  /\ route.fn.dbFunctionName = "create"
  /\ route.fn.dbFunctionParams = <<"params", "body">>
\* the same formula for the operations whose declarations fit the
\* signature: one path parameter exactly for findById, update and delete and
\* none for findAll and create, query parameters only for findAll, a body
\* for create and update and none on delete
DeclarationsFit ==
  LET ps == endpoint.parameters.v
      name == route.fn.dbFunctionName
      hasBody == IsDef(endpoint.requestBody) /\ endpoint.method # S_GET
  IN /\ CountParamsIn(ps, "path") = (IF name \in {"findAll", "create"} THEN 0 ELSE 1)
     /\ name # "findAll" => CountParamsIn(ps, "query") = 0
     /\ hasBody <=> name \in {"create", "update"}
C26_FitWitness ==
  /\ Classified /\ DeclarationsFit
  /\ route.fn.dbFunctionName = "update"
  /\ route.fn.dbFunctionParams = <<"id", "body">>
C26_WhenDeclarationsFit ==
  (Classified /\ IsCrud(route.fn.dbFunctionName) /\ DeclarationsFit) =>
    ArgKindsOf(route.fn) \in DbSignatures(route.fn.dbFunctionName)

(***************************************************************************)
(* Claims about update and delete of the database class (SpecRun)          *)
(***************************************************************************)
\* the step is a call of updatePet(id, body), which is this.db.update(id, body)
UpdateCalled == CallApiFunction /\ result'.fn = "updatePet"
UpdatedInPlace(id) ==
  /\ result'.settled = "returned"
  /\ DOMAIN store' = DOMAIN store
  /\ \A i \in DOMAIN store \ {id} : store'[i] = store[i]
  /\ result'.data[1].id = id
  /\ store'[id] = FieldsOf(result'.data[1])
MissRejected ==
  /\ result'.settled = "thrown"
  /\ result'.details.status = NotFound
  /\ store' = store

\* C27: update(id, updates) changes only the record stored under id: the
\* store holds the same ids afterwards, the updated record's id is id and no
\* other record is added or modified, whatever the payload, one carrying an
\* id of its own included; update of an id the store does not hold rejects
\* with status 404 and leaves the store unchanged.
C27_UpdateChangesOnlyItsRecord ==
  [][ UpdateCalled =>
        IF result'.id \in DOMAIN store THEN UpdatedInPlace(result'.id)
        ELSE MissRejected ]_vars

\* the same for the payloads that carry no id other than the one updated
C27_WhenPayloadKeepsId ==
  [][ (UpdateCalled /\ result'.id \in DOMAIN store
         /\ result'.settled = "returned" /\ result'.data[1].id = result'.id) =>
        UpdatedInPlace(result'.id) ]_vars
C27_MissLeavesStore ==
  [][ (UpdateCalled /\ result'.id \notin DOMAIN store) => MissRejected ]_vars
\* updatePet(1, {id: 2, ...}) on a store holding record 1 only: the store
\* now holds records 1 and 2
C27_UpdateAddedRecord ==
  /\ result # Undefined /\ result.fn = "updatePet" /\ result.id = 1
  /\ result.settled = "returned" /\ result.data[1].id = 2
  /\ DOMAIN store = {1, 2}
  /\ store[1] = [category |-> "cat", age |-> 2]

(***************************************************************************)
(* SpecDb: concurrent calls of the generated database class on one store   *)
(*                                                                         *)
(* Every method awaits init() and then opens its own transaction; update   *)
(* and delete first await this.findById(id), a transaction of its own, so  *)
(* that another caller's transaction can run between their read and their  *)
(* write.  create and importAll are one transaction.                       *)
(***************************************************************************)
Callers == {"a", "b"}
Idle == [pc |-> "idle"]

InitDb ==
  /\ runPc = "db"
  /\ store = EmptyStore
  /\ tasks = [c \in Callers |-> Idle]
  /\ deleted = {}
  /\ genInput = Undefined /\ gen = Undefined /\ seedCall = Undefined
  /\ result = Undefined
  /\ OpIdle /\ CmdIdle /\ TyIdle /\ NameIdle

\* create(data), one transaction: store.add(createDbRecord(data))
DbCreate(c) ==
  /\ tasks[c] = Idle
  /\ \E data \in Data, newId \in Ids \ DOMAIN store :
       /\ store' = create(store, data, newId).store
       /\ deleted' = deleted \ {newId}
  /\ UNCHANGED <<tasks, runPc, genInput, gen, seedCall, result, opVars, cmdVars, tyVars, nameVars>>

\* importAll(data) for one record, one transaction: store.clear(), store.add
DbImportAll(c) ==
  /\ tasks[c] = Idle
  /\ \E id \in Ids :
       /\ store' = importAll(store, <<Dog1>>, <<id>>)
       /\ deleted' = deleted \ {id}
  /\ UNCHANGED <<tasks, runPc, genInput, gen, seedCall, result, opVars, cmdVars, tyVars, nameVars>>

\* update(id, updates) up to its put: existingRecord = await this.findById(id);
\* a miss rejects and ends the call
DbUpdateRead(c) ==
  /\ tasks[c] = Idle
  /\ \E id \in Ids, updates \in Data :
       LET found == findById(store, id)
       IN tasks' = [tasks EXCEPT ![c] =
                      IF found.settled = "rejected" THEN Idle
                      ELSE [pc |-> "update.put",
                            updatedRecord |-> updateDbRecord(found.value[1], updates)]]
  /\ UNCHANGED <<store, deleted, runPc, genInput, gen, seedCall, result, opVars, cmdVars,
                 tyVars, nameVars>>

\* update's second transaction: store.put(updatedRecord)
DbUpdatePut(c) ==
  /\ tasks[c].pc = "update.put"
  /\ store' = Put(store, tasks[c].updatedRecord.id, FieldsOf(tasks[c].updatedRecord))
  /\ tasks' = [tasks EXCEPT ![c] = Idle]
  /\ UNCHANGED <<deleted, runPc, genInput, gen, seedCall, result, opVars, cmdVars, tyVars, nameVars>>

\* delete(id) up to its delete: await this.findById(id); a miss rejects
DbDeleteRead(c) ==
  /\ tasks[c] = Idle
  /\ \E id \in Ids :
       tasks' = [tasks EXCEPT ![c] =
                   IF findById(store, id).settled = "rejected" THEN Idle
                   ELSE [pc |-> "delete.delete", id |-> id]]
  /\ UNCHANGED <<store, deleted, runPc, genInput, gen, seedCall, result, opVars, cmdVars,
                 tyVars, nameVars>>

\* delete's second transaction: store.delete(id); the delete has completed
DbDeleteDelete(c) ==
  /\ tasks[c].pc = "delete.delete"
  /\ store' = Without(store, tasks[c].id)
  /\ deleted' = deleted \cup {tasks[c].id}
  /\ tasks' = [tasks EXCEPT ![c] = Idle]
  /\ UNCHANGED <<runPc, genInput, gen, seedCall, result, opVars, cmdVars, tyVars, nameVars>>

NextDb ==
  \E c \in Callers :
    \/ DbCreate(c)
    \/ DbImportAll(c)
    \/ DbUpdateRead(c)
    \/ DbUpdatePut(c)
    \/ DbDeleteRead(c)
    \/ DbDeleteDelete(c)
SpecDb == InitDb /\ [][NextDb]_vars

\* C28: under any interleaving of concurrent database calls on one store, a
\* record removed by a completed delete(id) is not in the store afterwards
\* unless a later create or import added it; an update that read the record
\* before the delete does not put it back.
C28_DeletedStaysDeleted == \A id \in deleted : id \notin DOMAIN store

\* caller a's update read record 1, caller b's delete(1) completed, then a's
\* put ran: record 1 is in the store again
C28_UpdateReinserted ==
  /\ deleted = {1} /\ 1 \in DOMAIN store
  /\ \A c \in Callers : tasks[c] = Idle
\* the put of an update in flight is the only step that brings a deleted
\* record back
C28_OnlyUpdatePutReinserts ==
  [][ (\E id \in deleted \cap deleted' : id \notin DOMAIN store /\ id \in DOMAIN store') =>
        \E c \in Callers : tasks[c].pc = "update.put" /\ tasks'[c] = Idle ]_vars

(***************************************************************************)
(* Claims about the storage-group keys across the written files (Spec)     *)
(***************************************************************************)
AllWritten == pc = "done"
ExportsOf(path) == (CHOOSE f \in FileAt(path) : TRUE).content.exports
PathsOfKind(kind) == {f.path : f \in FilesOfKind(kind)}
NoDuplicates(seq) == \A i, j \in DOMAIN seq : seq[i] = seq[j] => i = j
DbSetup == CHOOSE f \in FilesOfKind("db-setup") : TRUE
StoreNamesOfClasses == {f.content.storeName : f \in FilesOfKind("db")}

\* C29: once every file is written, the modules api/index.ts re-exports are
\* exactly the api files written, the modules db/index.ts re-exports are
\* db-setup and exactly the database files written, and the object stores
\* db-setup creates are exactly the storeNames of the database classes, each
\* once.
C29_StorageGroupKeysAgree ==
  AllWritten =>
    /\ {"api/" \o m \o ".ts" : m \in Range(ExportsOf("api/index.ts"))} = PathsOfKind("api")
    /\ NoDuplicates(ExportsOf("api/index.ts"))
    /\ {"db/" \o m \o ".ts" : m \in Range(ExportsOf("db/index.ts"))}
         = PathsOfKind("db") \cup PathsOfKind("db-setup")
    /\ NoDuplicates(ExportsOf("db/index.ts"))
    /\ Range(DbSetup.content.storeNames) = StoreNamesOfClasses
    /\ NoDuplicates(DbSetup.content.storeNames)
    /\ Cardinality(FilesOfKind("db")) = Len(DbSetup.content.storeNames)
    /\ Cardinality(FilesOfKind("api")) = Len(DbSetup.content.storeNames)
\* two operations tagged User-Profile and user_profile: the keys
\* user-profile and user_profile everywhere
C29_Witness ==
  /\ AllWritten
  /\ DbSetup.content.storeNames = <<"user-profile", "user_profile">>
  /\ ExportsOf("api/index.ts") = <<"user-profile-api", "user_profile-api">>
  /\ PathsOfKind("db") = {"db/user-profile-db.ts", "db/user_profile-db.ts"}

(***************************************************************************)
(* SpecName: toPascalCase applied to a name, and to its own output         *)
(***************************************************************************)
MaxNameLen == 3
NameChars == {"a", "B", "1", "-", "_"}
RECURSIVE NamesOfLen(_)
NamesOfLen(n) ==
  IF n = 0 THEN {<<>>}
  ELSE {Append(prefix, c) : prefix \in NamesOfLen(n - 1), c \in NameChars}
Names == UNION {NamesOfLen(n) : n \in 0..MaxNameLen}

InitName ==
  /\ namePc = "raw"
  /\ rawName \in Names
  /\ pascalNames = Undefined
  /\ OpIdle /\ CmdIdle /\ TyIdle /\ StoreIdle

\* toPascalCase(name)
Canonicalize ==
  /\ namePc = "raw"
  /\ pascalNames' = [once |-> toPascalCase(rawName), twice |-> Undefined]
  /\ namePc' = "once"
  /\ UNCHANGED <<rawName, opVars, cmdVars, tyVars, runVars, dbVars>>

\* toPascalCase(toPascalCase(name))
CanonicalizeAgain ==
  /\ namePc = "once"
  /\ pascalNames' = [pascalNames EXCEPT !.twice = Def(toPascalCase(pascalNames.once))]
  /\ namePc' = "twice"
  /\ UNCHANGED <<rawName, opVars, cmdVars, tyVars, runVars, dbVars>>

NextName == Canonicalize \/ CanonicalizeAgain
SpecName == InitName /\ [][NextName]_vars

\* C30: toPascalCase is idempotent: for every name over letters, digits, '-'
\* and '_', applying it to its own output returns that output unchanged.
C30_ToPascalCaseIdempotent ==
  namePc = "twice" => pascalNames.twice = Def(pascalNames.once)

\* a__ gives A_ on both passes, but --a gives -A, and -A gives A
C30_SecondPassChanges ==
  /\ namePc = "twice"
  /\ rawName = <<"-", "-", "a">>
  /\ pascalNames.once = <<"-", "A">>
  /\ pascalNames.twice = Def(<<"A">>)
\* the same for the names in which no '-' or '_' follows another
IsSeparator(c) == c \in {"-", "_"}
SeparatorsAreSingle(str) ==
  \A i \in 1..(Len(str) - 1) : ~(IsSeparator(str[i]) /\ IsSeparator(str[i + 1]))
C30_WhenSeparatorsAreSingle ==
  (namePc = "twice" /\ SeparatorsAreSingle(rawName)) => pascalNames.twice = Def(pascalNames.once)

====
